---------------------------- MODULE Spec2Model ----------------------------
(***************************************************************************)
(* Watchtower-Sentry: state-machine models of the stream operators         *)
(* AggSum (filters/AggSum.py), MovingStat (filters/MovingStat.py) and      *)
(* TimeOrder (filters/TimeOrder.py).  Each operator has a specification of *)
(* its own (SpecAggSum, SpecMovingStat, SpecTimeOrder); the variables of   *)
(* the operators a specification does not run stay at their initial value. *)
(***************************************************************************)
EXTENDS Integers, Sequences, FiniteSets, TLC

VARIABLES
    \* ---- AggSum ----
    agg_by_group,   \* self.agg_by_group: expression -> groupid -> t -> agginfo
    agg_by_seen,    \* self.agg_by_seen: OrderedDict, as a sequence of <<aggkey, agginfo>>
    old_keys,       \* self.old_keys: expression -> groupid -> t
    droppartial,    \* self.droppartial (configuration)
    ag_now,         \* the wall clock read by time.time() in AggSum.run
    ag_done,        \* the for loop of AggSum.run has ended (self.gen() is exhausted)
    ag_count,       \* number of entries AggSum.run has pulled from self.gen()
    ag_entry,       \* the entry handled last, as <<key, value, t>>
    ag_emitted,     \* the buckets the last entry made AggSum yield or drop, in order
    ag_total,       \* history: aggkey -> [n, sum] of all matching entries consumed
    ag_segn,        \* history: aggkey -> number of matching entries consumed since a
                    \* bucket of the aggkey last left
    ag_seg,         \* history: aggkey -> sum of the values of the matching entries
                    \*   consumed since a bucket of aggkey was last yielded or dropped
    ag_hi,          \* history: (expression, groupid) -> greatest time yielded or dropped
    ag_outs         \* history: aggkey -> the values yielded for it, in order

VARIABLES
    \* ---- TimeOrder ----
    to_last_key_time,  \* self.last_key_time: key -> time yielded last (or None)
    kv_buf,            \* self.kv_buf: key -> (time -> value), the buffered future entries
    kv_buf_keys,       \* the keys of self.kv_buf in insertion order
    kv_buf_timer,      \* self.kv_buf_timer: key -> clock reading of the last yield
    to_now,            \* the wall clock read by time.time() in _handle_kvt
    to_done,           \* TimeOrder.run has drained the buffers and returned
    to_count,          \* number of entries TimeOrder.run has pulled from self.gen()
    to_entry,          \* the entry handled last, as <<key, value, t>>
    to_emitted,        \* the samples the last step yielded, in order
    to_prev,           \* history: key -> the time of the sample yielded last for it
    to_first,          \* history: key -> the time of the sample yielded first for it
    to_in,             \* history: sample -> how often self.gen() delivered it
    to_out,            \* history: sample -> how often TimeOrder.run yielded it
    to_lost            \* history: sample -> how often it was dropped as too old or
                       \*          replaced in kv_buf by an entry of the same key and time

VARIABLES
    \* ---- MovingStat ----
    ms_cfg,            \* the configuration MovingStat.__init__ was given
    ms_data,           \* self.data: key -> StatBase (vtq, raw_vtq, values / sum)
    ms_last_key_time,  \* self.last_key_time: key -> time of the last non-null entry
    ms_error,          \* the exception MovingStat.run died of ("none" while it runs)
    ms_entry,          \* the entry handled last, as <<key, value, t>>
    ms_branch,         \* the path the last entry took through the loop body
    ms_emitted,        \* the samples the last entry made MovingStat yield
    ms_extreme,        \* whether should_inpaint(ratio) held for the last entry
    ms_pre,            \* history: self.data[key] as it was before the last entry
    ms_prev,           \* history: key -> the time of the sample yielded last for it
    ms_disorder        \* history: number of entries with t <= last_key_time[key]

VARIABLES
    \* ---- Datasource (the reader thread and the consumer of a threaded source) ----
    ds_kind,        \* the subclass whose reader_body runs: "historical" or "realtime"
    ds_done,        \* self.done
    ds_incoming,    \* self.incoming: [none |-> TRUE] for None, else [items |-> a list]
    ds_producable,  \* self.producable
    ds_consumable,  \* self.consumable
    ds_reader_exc,  \* self.reader_exc: "none" for None, else the exception
    ds_rpc,         \* where the reader thread is
    ds_cpc,         \* where the consumer (the generator Datasource.run) is
    ds_data,        \* the consumer's local variable data
    ds_requests,    \* number of batches the reader has received from its I/O
    ds_published,   \* history: the batches the reader published, in order
    ds_taken,       \* history: the batches the consumer took, in order
    ds_outcome,     \* history: how the consumer left its loop ("none" while inside)
    ds_check,       \* history: what the consumer's last completed check saw and did
    ds_notified,    \* history: the conditions the consumer's finally block notified
    ds_yielded,     \* history: the entries the consumer has yielded, in order
    ds_woken,       \* history: the finally block's notify woke the waiting reader
    ds_clobbered    \* history: the reader reset the slot while a batch was untaken

VARIABLES
    \* ---- AlertKafka ----
    ak_cfg,           \* min, max, minduration, waitnormal (None: not configured)
    ak_alert_status,  \* self.alert_status
    ak_alert_state,   \* self.alert_state: the suppressed (pending) alert of a key
    ak_normal_state,  \* self.normal_state: the suppressed return to normal of a key
    ak_entry,         \* history: the entry read last
    ak_pre,           \* history: status and pending alert of its key before it was read
    ak_out,           \* history: the alerts produced for it
    ak_owed,          \* history: per key, a critical alert was produced and no sample
                      \*          of the key was normal since
    ak_crit,          \* history: per key, the critical alerts produced since the
                      \*          status of the key changed last (counted up to 2)
    ak_last           \* history: per key, the level of the alert produced last

VARIABLES
    \* ---- the pipeline DataIn -> DataOut ----
    io_input,         \* DataIn.data: config['input']
    io_pos,           \* entries of self.data that DataIn.run has gone through
    io_output,        \* DataOut.output: config['output']
    io_pc,            \* "running", "done", or "error" when run raised

    \* ---- Sentry.__init__: the loop over config['pipeline'] ----
    rc_pipeline,      \* per stage, the roles of its class
    rc_i,             \* stages that passed the loop body
    rc_role_ok,       \* the loop has ended without an error
    rc_result         \* "checking", "ok", or "UserError"

VARIABLES
    \* ---- _sortedlist_add_remove ----
    sl_list,          \* slist, the list the function works on
    sl_call,          \* history: the list before the last call and its arguments
    sl_ok             \* history: the last call returned (FALSE: it raised)

ag_vars == <<agg_by_group, agg_by_seen, old_keys, droppartial, ag_now, ag_done,
             ag_count, ag_entry, ag_emitted, ag_total, ag_seg, ag_segn, ag_hi,
             ag_outs>>

to_vars == <<to_last_key_time, kv_buf, kv_buf_keys, kv_buf_timer, to_now, to_done,
             to_count, to_entry, to_emitted, to_prev, to_first, to_in, to_out, to_lost>>

ms_vars == <<ms_cfg, ms_data, ms_last_key_time, ms_error, ms_entry, ms_branch,
             ms_emitted, ms_extreme, ms_pre, ms_prev, ms_disorder>>

ds_vars == <<ds_kind, ds_done, ds_incoming, ds_producable, ds_consumable,
             ds_reader_exc, ds_rpc, ds_cpc, ds_data, ds_requests, ds_published,
             ds_taken, ds_outcome, ds_check, ds_notified, ds_woken, ds_yielded, ds_clobbered>>

ak_vars == <<ak_cfg, ak_alert_status, ak_alert_state, ak_normal_state, ak_entry,
             ak_pre, ak_out, ak_owed, ak_crit, ak_last>>

io_vars == <<io_input, io_pos, io_output, io_pc>>

rc_vars == <<rc_pipeline, rc_i, rc_role_ok, rc_result>>

sl_vars == <<sl_list, sl_call, sl_ok>>

vars == <<ag_vars, to_vars, ms_vars, ds_vars, ak_vars, io_vars, rc_vars, sl_vars>>

\* What each operator leaves alone: the variables of the other operators.
ag_others == <<to_vars, ms_vars, ds_vars, ak_vars, io_vars, rc_vars, sl_vars>>
to_others == <<ag_vars, ms_vars, ds_vars, ak_vars, io_vars, rc_vars, sl_vars>>
ms_others == <<ag_vars, to_vars, ds_vars, ak_vars, io_vars, rc_vars, sl_vars>>
ds_others == <<ag_vars, to_vars, ms_vars, ak_vars, io_vars, rc_vars, sl_vars>>
ak_others == <<ag_vars, to_vars, ms_vars, ds_vars, io_vars, rc_vars, sl_vars>>
io_others == <<ag_vars, to_vars, ms_vars, ds_vars, ak_vars, rc_vars, sl_vars>>
rc_others == <<ag_vars, to_vars, ms_vars, ds_vars, ak_vars, io_vars, sl_vars>>
sl_others == <<ag_vars, to_vars, ms_vars, ds_vars, ak_vars, io_vars, rc_vars>>

\* Python's None, as a value outside every value and time domain of the model.
None == 0 - 1000

Min(S) == CHOOSE x \in S : \A y \in S : x <= y
Max(S) == CHOOSE x \in S : \A y \in S : x >= y

\* python dict helpers: d[k] = v and del d[k]
DictSet(d, k, v) == [x \in (DOMAIN d) \cup {k} |-> IF x = k THEN v ELSE d[x]]
DictDel(d, k) == [x \in (DOMAIN d) \ {k} |-> d[x]]
DictGet(d, k, default) == IF k \in DOMAIN d THEN d[k] ELSE default
EmptyDict == [x \in {} |-> None]

(***************************************************************************)
(*                               AggSum                                    *)
(***************************************************************************)

\* Bounds of the AggSum runs.
MaxAggInputs == 3          \* entries pulled from the source in one run

\* Configuration (test_sentry.py, Test 2: groupsize 2, timeout 1), with two
\* expressions so that "first match wins" is exercised.
AggGroupsize == 2
AggTimeout == 1

\* Input domain: keys as tuples of '.'-separated segments; between two entries
\* the wall clock stands still or advances by the timeout.
\* a.x.1 and a.x.2 fall into group (x) of expression 1 (a.x.1 matches expression
\* 2 as well), b.y.1 into group (b) of expression 2, c.z.2 matches nothing.
AggTimes == { 10, 20, 30 }
AggEntries ==
    ({ <<"a", "x", "1">> } \X { None, 1 } \X AggTimes)
    \cup ({ <<"a", "x", "2">> } \X { 2 } \X AggTimes)
    \cup { << <<"b", "y", "1">>, 1, 10 >>, << <<"b", "y", "1">>, 2, 20 >>,
           << <<"c", "z", "2">>, 1, 10 >> }
AggTicks == { 0, AggTimeout }

Expressions == { 1, 2 }

\* exp_re.match(key) for the expressions  1: a.(*).*   2: (*).*.1
ExpMatches(idx, key) ==
    IF idx = 1 THEN key[1] = "a" ELSE key[3] = "1"

\* match.groups(): the substrings captured by the parenthesized subexpressions.
ExpGroups(idx, key) ==
    IF idx = 1 THEN << key[2] >> ELSE << key[1] >>

\* The loop over self.expression_res: the first expression that matches, or 0.
FirstMatch(key) ==
    LET hits == { idx \in Expressions : ExpMatches(idx, key) }
    IN  IF hits = {} THEN 0 ELSE Min(hits)

\* AggSum.groupkey: the expression with each (...) replaced by the group id part.
groupkey(idx, groupid) ==
    IF idx = 1 THEN << "a", groupid[1], "*" >> ELSE << groupid[1], "*", "1" >>

\* Mutant of IsOld: late data is never recognised.
IsOldNever(ok, idx, groupid, t) == FALSE

\* Mutant of IsOld: the sample one step of AggTimes behind the watermark is
\* not recognised as late.
IsOldLenient(ok, idx, groupid, t) ==
    /\ groupid \in DOMAIN ok[idx]
    /\ t + 10 < ok[idx][groupid]

\* AggSum._is_old
IsOld(ok, idx, groupid, t) ==
    /\ groupid \in DOMAIN ok[idx]
    /\ t < ok[idx][groupid]

\* Mutant of UpdateOldkeys: only the first watermark of a group is stored.
UpdateOldkeysOnce(ok, idx, groupid, t) ==
    IF groupid \notin DOMAIN ok[idx]
    THEN [ok EXCEPT ![idx] = DictSet(ok[idx], groupid, t)]
    ELSE ok

\* AggSum._update_oldkeys
UpdateOldkeys(ok, idx, groupid, t) ==
    IF groupid \notin DOMAIN ok[idx] \/ t > ok[idx][groupid]
    THEN [ok EXCEPT ![idx] = DictSet(ok[idx], groupid, t)]
    ELSE ok

\* Mutant of SeenDel: the bucket stays in agg_by_seen.
SeenDelKeeps(seen, aggkey) == seen

\* del self.agg_by_seen[aggkey]
SeenDel(seen, aggkey) == SelectSeq(seen, LAMBDA r : r.aggkey # aggkey)

\* A run state threaded through the handler: st.g = agg_by_group, st.s = agg_by_seen,
\* st.o = old_keys, st.dp = droppartial, and the history st.em = ag_emitted,
\* st.seg = ag_seg, st.segn = ag_segn, st.hi = ag_hi, st.outs = ag_outs.

\* One bucket leaves AggSum: it is yielded as (groupkey, vsum, t) (kind "emit")
\* or deleted without a yield (kind "drop").  why: "full" (line 179), "expired"
\* (line 107) or "timeout" (line 198).  The history is updated with it.
Leave(st, idx, groupid, t, vsum, kind, why) ==
    LET aggkey == <<idx, groupid, t>>
        grp == <<idx, groupid>>
        ev == [exp |-> idx, groupid |-> groupid, key |-> groupkey(idx, groupid),
               value |-> vsum, t |-> t, kind |-> kind, why |-> why,
               hi |-> DictGet(st.hi, grp, None), seg |-> DictGet(st.seg, aggkey, 0),
               n |-> DictGet(st.segn, aggkey, 0)]
    IN  [st EXCEPT !.em = Append(@, ev),
                   !.seg = DictSet(@, aggkey, 0),
                   !.segn = DictSet(@, aggkey, 0),
                   !.hi = DictSet(@, grp, IF grp \in DOMAIN st.hi /\ st.hi[grp] > t
                                          THEN st.hi[grp] ELSE t),
                   !.outs = IF kind = "emit"
                            THEN DictSet(@, aggkey, Append(DictGet(@, aggkey, << >>), vsum))
                            ELSE @]

\* Mutant of ExpireOldtimes: the older buckets are yielded whatever droppartial says.
RECURSIVE ExpireOldtimesYields(_, _, _, _)
ExpireOldtimesYields(st, idx, groupid, max_t) ==
    LET oldtimes == { ot \in DOMAIN st.g[idx][groupid] : ot < max_t }
    IN  IF oldtimes = {} THEN st
        ELSE LET oldtime == Min(oldtimes)
                 old_agginfo == st.g[idx][groupid][oldtime]
                 st1 == Leave(st, idx, groupid, oldtime, old_agginfo.vsum, "emit", "expired")
                 st2 == [st1 EXCEPT
                           !.g = [@ EXCEPT ![idx][groupid] = DictDel(@, oldtime)],
                           !.s = SeenDel(@, <<idx, groupid, oldtime>>)]
             IN  ExpireOldtimesYields(st2, idx, groupid, max_t)

\* AggSum._expire_oldtimes: the buckets of the group older than max_t, oldest
\* first, are yielded (unless droppartial) and deleted from both indexes.
RECURSIVE ExpireOldtimes(_, _, _, _)
ExpireOldtimes(st, idx, groupid, max_t) ==
    LET oldtimes == { ot \in DOMAIN st.g[idx][groupid] : ot < max_t }
    IN  IF oldtimes = {} THEN st
        ELSE LET oldtime == Min(oldtimes)
                 old_agginfo == st.g[idx][groupid][oldtime]
                 st1 == Leave(st, idx, groupid, oldtime, old_agginfo.vsum,
                              IF st.dp THEN "drop" ELSE "emit", "expired")
                 st2 == [st1 EXCEPT
                           !.g = [@ EXCEPT ![idx][groupid] = DictDel(@, oldtime)],
                           !.s = SeenDel(@, <<idx, groupid, oldtime>>)]
             IN  ExpireOldtimes(st2, idx, groupid, max_t)

\* Lines 162-181: the bucket reached groupsize.
EmitFull(st, idx, groupid, t, agginfo) ==
    LET st1 == [st EXCEPT !.g = [@ EXCEPT ![idx][groupid] = DictDel(@, t)],
                          !.s = SeenDel(@, <<idx, groupid, t>>)]
        st2 == ExpireOldtimes(st1, idx, groupid, t)
        st3 == Leave(st2, idx, groupid, t, agginfo.vsum, "emit", "full")
    IN  [st3 EXCEPT !.o = UpdateOldkeys(@, idx, groupid, t)]

\* Lines 183-200: the timeout sweep over agg_by_seen, oldest first_seen first.
RECURSIVE Sweep(_, _)
Sweep(st, expiry_time) ==
    IF st.s = << >> THEN st
    ELSE LET aggkey == Head(st.s).aggkey
             agginfo == Head(st.s).agginfo
             idx == aggkey[1]
             groupid == aggkey[2]
             t == aggkey[3]
         IN  IF agginfo.first_seen > expiry_time THEN st
             ELSE LET st1 == [st EXCEPT !.s = Tail(@),
                                        !.g = [@ EXCEPT ![idx][groupid] = DictDel(@, t)]]
                      st2 == ExpireOldtimes(st1, idx, groupid, t)
                      st3 == Leave(st2, idx, groupid, t, agginfo.vsum,
                                   IF st.dp THEN "drop" ELSE "emit", "timeout")
                      st4 == [st3 EXCEPT !.o = UpdateOldkeys(@, idx, groupid, t)]
                  IN  Sweep(st4, expiry_time)

\* Mutant of Accumulate: the value overwrites the sum (vsum = value for vsum += value).
AccumulateOverwrite(st, idx, groupid, t, value, now) ==
    LET g1 == IF groupid \in DOMAIN st.g[idx] THEN st.g
              ELSE [st.g EXCEPT ![idx] = DictSet(@, groupid, EmptyDict)]
        isnew == t \notin DOMAIN g1[idx][groupid]
        old == IF isnew THEN [first_seen |-> now, count |-> 0, vsum |-> 0]
               ELSE g1[idx][groupid][t]
        agginfo == [old EXCEPT !.count = @ + 1,
                               !.vsum = IF value # None THEN value ELSE @]
        aggkey == <<idx, groupid, t>>
        s1 == IF isnew THEN Append(st.s, [aggkey |-> aggkey, agginfo |-> agginfo])
              ELSE [i \in 1..Len(st.s) |->
                      IF st.s[i].aggkey = aggkey THEN [st.s[i] EXCEPT !.agginfo = agginfo]
                      ELSE st.s[i]]
    IN  [st EXCEPT !.g = [g1 EXCEPT ![idx] = [@ EXCEPT ![groupid] = DictSet(@, t, agginfo)]],
                   !.s = s1]

\* Lines 144-156: find or create the bucket and add the value to it.  The
\* agginfo object is shared by both indexes, so the in-place update shows in both.
Accumulate(st, idx, groupid, t, value, now) ==
    LET g1 == IF groupid \in DOMAIN st.g[idx] THEN st.g
              ELSE [st.g EXCEPT ![idx] = DictSet(@, groupid, EmptyDict)]
        isnew == t \notin DOMAIN g1[idx][groupid]
        old == IF isnew THEN [first_seen |-> now, count |-> 0, vsum |-> 0]
               ELSE g1[idx][groupid][t]
        agginfo == [old EXCEPT !.count = @ + 1,
                               !.vsum = IF value # None THEN @ + value ELSE @]
        aggkey == <<idx, groupid, t>>
        s1 == IF isnew THEN Append(st.s, [aggkey |-> aggkey, agginfo |-> agginfo])
              ELSE [i \in 1..Len(st.s) |->
                      IF st.s[i].aggkey = aggkey THEN [st.s[i] EXCEPT !.agginfo = agginfo]
                      ELSE st.s[i]]
    IN  [st EXCEPT !.g = [g1 EXCEPT ![idx] = [@ EXCEPT ![groupid] = DictSet(@, t, agginfo)]],
                   !.s = s1]

\* The body of the for loop of AggSum.run for one entry (key, value, t), with
\* the clock reading now.
HandleEntry(st, key, value, t, now) ==
    LET idx == FirstMatch(key)
    IN  IF idx = 0 THEN st                                   \* line 133: continue
        ELSE LET groupid == ExpGroups(idx, key)
             IN  IF IsOld(st.o, idx, groupid, t) THEN st     \* line 143: continue
                 ELSE LET st1 == Accumulate(st, idx, groupid, t, value, now)
                          agginfo == st1.g[idx][groupid][t]
                          st2 == IF AggGroupsize # 0 /\ agginfo.count = AggGroupsize
                                 THEN EmitFull(st1, idx, groupid, t, agginfo)
                                 ELSE st1
                      IN  Sweep(st2, now - AggTimeout)

\* History: the entry is counted for its aggkey before it is handled.
Observe(key, value, t) ==
    LET idx == FirstMatch(key)
        aggkey == <<idx, ExpGroups(idx, key), t>>
        v == IF value = None THEN 0 ELSE value
        old == DictGet(ag_total, aggkey, [n |-> 0, sum |-> 0])
    IN  IF idx = 0 THEN [total |-> ag_total, seg |-> ag_seg, segn |-> ag_segn]
        ELSE [total |-> DictSet(ag_total, aggkey, [n |-> old.n + 1, sum |-> old.sum + v]),
              seg |-> DictSet(ag_seg, aggkey, DictGet(ag_seg, aggkey, 0) + v),
              segn |-> DictSet(ag_segn, aggkey, DictGet(ag_segn, aggkey, 0) + 1)]

\* The state after AggSum.__init__, with droppartial as configured.
AggStart(dp) ==
    /\ agg_by_group = [idx \in Expressions |-> EmptyDict]
    /\ agg_by_seen = << >>
    /\ old_keys = [idx \in Expressions |-> EmptyDict]
    /\ droppartial = dp
    /\ ag_now = 0
    /\ ag_done = FALSE
    /\ ag_count = 0
    /\ ag_entry = << >>
    /\ ag_emitted = << >>
    /\ ag_total = EmptyDict
    /\ ag_seg = EmptyDict
    /\ ag_segn = EmptyDict
    /\ ag_hi = EmptyDict
    /\ ag_outs = EmptyDict

\* AggSum.run pulls one entry from self.gen() and handles it.
AggEntry(key, value, t, tick) ==
    /\ ~ag_done
    /\ ag_count < MaxAggInputs
    /\ LET now == ag_now + tick
           obs == Observe(key, value, t)
           st == [g |-> agg_by_group, s |-> agg_by_seen, o |-> old_keys,
                  dp |-> droppartial, em |-> << >>, seg |-> obs.seg, segn |-> obs.segn,
                  hi |-> ag_hi, outs |-> ag_outs]
           res == HandleEntry(st, key, value, t, now)
       IN  /\ ag_now' = now
           /\ ag_count' = ag_count + 1
           /\ ag_entry' = <<key, value, t>>
           /\ agg_by_group' = res.g
           /\ agg_by_seen' = res.s
           /\ old_keys' = res.o
           /\ ag_emitted' = res.em
           /\ ag_total' = obs.total
           /\ ag_seg' = res.seg
           /\ ag_segn' = res.segn
           /\ ag_hi' = res.hi
           /\ ag_outs' = res.outs
    /\ UNCHANGED <<droppartial, ag_done>>
    /\ UNCHANGED ag_others

\* self.gen() is exhausted: the for loop ends and run returns (line 202).
AggEnd ==
    /\ ~ag_done
    /\ ag_done' = TRUE
    /\ ag_emitted' = << >>
    /\ UNCHANGED <<agg_by_group, agg_by_seen, old_keys, droppartial, ag_now,
                   ag_count, ag_entry, ag_total, ag_seg, ag_segn, ag_hi, ag_outs>>
    /\ UNCHANGED ag_others

AggNext ==
    \/ \E entry \in AggEntries, tick \in AggTicks :
          AggEntry(entry[1], entry[2], entry[3], tick)
    \/ AggEnd

(***************************************************************************)
(*                              TimeOrder                                  *)
(***************************************************************************)

\* Bound of the TimeOrder runs.
MaxTOInputs == 4           \* entries pulled from the source in one run

\* Configuration (test_sentry.py, "Test strict time ordering").
TOInterval == 10
TOTimeout == 20

\* Input domain: times on the interval grid and one off it (25); between two
\* entries the wall clock stands still or advances by the timeout.
TOEntries ==
    ({ "k1" } \X { 1 } \X { 10, 20, 25, 30, 40 })
    \cup { << "k1", 2, 30 >>, << "k2", 1, 10 >>, << "k2", 1, 30 >> }
TOTicks == { 0, TOTimeout }

\* A sample is yielded; how: "direct" (line 60), "drain" or "forced" (line 76,
\* without and with force_buffer_use), "final" (line 92).  prev is the time of
\* the sample yielded before it for the same key (None for the first).
TOYield(st, key, val, t, how) ==
    [st EXCEPT !.em = Append(@, [key |-> key, value |-> val, t |-> t, how |-> how,
                                 prev |-> DictGet(st.prev, key, None)]),
               !.prev = DictSet(@, key, t)]

\* Mutant of DrainOk: any buffered time at or after the expected one is yielded.
DrainOkAtLeast(force_buffer_use, bt, lkt) ==
    force_buffer_use \/ bt >= lkt + TOInterval

\* Line 75: a buffered entry is yielded if the buffer is forced or the entry
\* has exactly the expected time.
DrainOk(force_buffer_use, bt, lkt) ==
    force_buffer_use \/ bt = lkt + TOInterval

\* Mutant of DrainBuffer: force_buffer_use is not reset after the first yield,
\* so a forced drain empties the buffer.
RECURSIVE DrainBufferForcesAll(_, _, _, _, _)
DrainBufferForcesAll(st, key, buf_times, force_buffer_use, now) ==
    IF buf_times = {} THEN st
    ELSE LET bt == Min(buf_times)
             lkt == st.lkt[key]
         IN  IF DrainOk(force_buffer_use, bt, lkt)
             THEN LET st1 == TOYield(st, key, st.buf[key][bt], bt,
                                     IF force_buffer_use THEN "forced" ELSE "drain")
                      st2 == [st1 EXCEPT !.lkt = DictSet(@, key, bt),
                                         !.timer = DictSet(@, key, now),
                                         !.buf = [@ EXCEPT ![key] = DictDel(@, bt)]]
                  IN  DrainBufferForcesAll(st2, key, buf_times \ {bt}, force_buffer_use, now)
             ELSE st

\* Mutant of DrainBuffer: a yielded entry is not deleted from kv_buf.
RECURSIVE DrainBufferKeeps(_, _, _, _, _)
DrainBufferKeeps(st, key, buf_times, force_buffer_use, now) ==
    IF buf_times = {} THEN st
    ELSE LET bt == Min(buf_times)
             lkt == st.lkt[key]
         IN  IF DrainOk(force_buffer_use, bt, lkt)
             THEN LET st1 == TOYield(st, key, st.buf[key][bt], bt,
                                     IF force_buffer_use THEN "forced" ELSE "drain")
                      st2 == [st1 EXCEPT !.lkt = DictSet(@, key, bt),
                                         !.timer = DictSet(@, key, now)]
                  IN  DrainBufferKeeps(st2, key, buf_times \ {bt}, FALSE, now)
             ELSE st

\* Lines 73-82: walk the buffered times of the key in ascending order.
RECURSIVE DrainBuffer(_, _, _, _, _)
DrainBuffer(st, key, buf_times, force_buffer_use, now) ==
    IF buf_times = {} THEN st
    ELSE LET bt == Min(buf_times)
             lkt == st.lkt[key]
         IN  IF DrainOk(force_buffer_use, bt, lkt)
             THEN LET st1 == TOYield(st, key, st.buf[key][bt], bt,
                                     IF force_buffer_use THEN "forced" ELSE "drain")
                      st2 == [st1 EXCEPT !.lkt = DictSet(@, key, bt),
                                         !.timer = DictSet(@, key, now),
                                         !.buf = [@ EXCEPT ![key] = DictDel(@, bt)]]
                  IN  DrainBuffer(st2, key, buf_times \ {bt}, FALSE, now)
             ELSE st                                         \* line 82: break

\* Mutant of HandleKvt: a future entry is not stored in kv_buf.
HandleKvtDropsFuture(st0, key, val, t, now) ==
    LET st == IF key \in DOMAIN st0.lkt THEN st0
              ELSE [st0 EXCEPT !.lkt = DictSet(@, key, None),
                               !.buf = DictSet(@, key, EmptyDict),
                               !.keys = Append(@, key),
                               !.timer = DictSet(@, key, None)]
        lkt == st.lkt[key]
        kbt == st.timer[key]
        force_buffer_use == (kbt # None) /\ (kbt + TOTimeout <= now)
    IN  IF lkt = None \/ t = lkt + TOInterval
        THEN LET st1 == TOYield(st, key, val, t, "direct")
                 st2 == [st1 EXCEPT !.lkt = DictSet(@, key, t),
                                    !.timer = DictSet(@, key, now)]
             IN  DrainBuffer(st2, key, DOMAIN st2.buf[key], FALSE, now)
        ELSE IF force_buffer_use
             THEN DrainBuffer(st, key, DOMAIN st.buf[key], TRUE, now)
             ELSE st

\* TimeOrder._handle_kvt
HandleKvt(st0, key, val, t, now) ==
    LET st == IF key \in DOMAIN st0.lkt THEN st0
              ELSE [st0 EXCEPT !.lkt = DictSet(@, key, None),
                               !.buf = DictSet(@, key, EmptyDict),
                               !.keys = Append(@, key),
                               !.timer = DictSet(@, key, None)]
        lkt == st.lkt[key]
        kbt == st.timer[key]
        force_buffer_use == (kbt # None) /\ (kbt + TOTimeout <= now)
    IN  IF lkt = None \/ t = lkt + TOInterval
        THEN LET st1 == TOYield(st, key, val, t, "direct")
                 st2 == [st1 EXCEPT !.lkt = DictSet(@, key, t),
                                    !.timer = DictSet(@, key, now)]
             IN  DrainBuffer(st2, key, DOMAIN st2.buf[key], FALSE, now)
        ELSE LET st1 == IF t > lkt + TOInterval
                        THEN [st EXCEPT !.buf = [@ EXCEPT ![key] = DictSet(@, t, val)]]
                        ELSE st                              \* too old, drop
             IN  IF force_buffer_use
                 THEN DrainBuffer(st1, key, DOMAIN st1.buf[key], TRUE, now)
                 ELSE st1

\* Mutant of FinalKey: only the earliest buffered entry of the key is yielded.
FinalKeyFirstOnly(st, key, times) ==
    IF times = {} THEN st
    ELSE TOYield(st, key, st.buf[key][Min(times)], Min(times), "final")

\* Lines 90-92: when the source is exhausted, whatever is buffered is yielded,
\* key by key, in ascending time order.
RECURSIVE FinalKey(_, _, _)
FinalKey(st, key, times) ==
    IF times = {} THEN st
    ELSE LET t == Min(times)
         IN  FinalKey(TOYield(st, key, st.buf[key][t], t, "final"), key, times \ {t})

RECURSIVE FinalDrain(_, _)
FinalDrain(st, keys) ==
    IF keys = << >> THEN st
    ELSE FinalDrain(FinalKey(st, Head(keys), DOMAIN st.buf[Head(keys)]), Tail(keys))

\* One more copy of x in the multiset b (a function from items to counts)
BagAdd(b, x) == DictSet(b, x, DictGet(b, x, 0) + 1)

\* The samples yielded so far, with those of the events em added
RECURSIVE Yielded(_, _)
Yielded(out, em) ==
    IF em = << >> THEN out
    ELSE Yielded(BagAdd(out, << Head(em).key, Head(em).value, Head(em).t >>), Tail(em))

\* The first yielded time per key, with those of the events em added
RECURSIVE FirstYielded(_, _)
FirstYielded(first, em) ==
    IF em = << >> THEN first
    ELSE FirstYielded(IF Head(em).key \in DOMAIN first THEN first
                      ELSE DictSet(first, Head(em).key, Head(em).t), Tail(em))

\* What _handle_kvt loses of the entry (key, val, t): the entry itself when it
\* is neither the expected nor a future one (line 68, "too old, drop"), the
\* value kv_buf held for (key, t) when the entry replaces it (line 67).
Lost(lost, key, val, t) ==
    LET lkt == DictGet(to_last_key_time, key, None)
    IN  IF lkt = None THEN lost
        ELSE IF t < lkt + TOInterval THEN BagAdd(lost, << key, val, t >>)
        ELSE IF t > lkt + TOInterval /\ t \in DOMAIN kv_buf[key]
        THEN BagAdd(lost, << key, kv_buf[key][t], t >>)
        ELSE lost

TOState ==
    [lkt |-> to_last_key_time, buf |-> kv_buf, keys |-> kv_buf_keys,
     timer |-> kv_buf_timer, em |-> << >>, prev |-> to_prev]

\* The state after TimeOrder.__init__.
TOStart ==
    /\ to_last_key_time = EmptyDict
    /\ kv_buf = EmptyDict
    /\ kv_buf_keys = << >>
    /\ kv_buf_timer = EmptyDict
    /\ to_now = 0
    /\ to_done = FALSE
    /\ to_count = 0
    /\ to_entry = << >>
    /\ to_emitted = << >>
    /\ to_prev = EmptyDict
    /\ to_first = EmptyDict
    /\ to_in = EmptyDict
    /\ to_out = EmptyDict
    /\ to_lost = EmptyDict

\* TimeOrder.run pulls one entry from self.gen() and yields what
\* _handle_kvt yields for it.
TOEntry(key, val, t, tick) ==
    /\ ~to_done
    /\ to_count < MaxTOInputs
    /\ LET now == to_now + tick
           res == HandleKvt(TOState, key, val, t, now)
       IN  /\ to_now' = now
           /\ to_count' = to_count + 1
           /\ to_entry' = <<key, val, t>>
           /\ to_last_key_time' = res.lkt
           /\ kv_buf' = res.buf
           /\ kv_buf_keys' = res.keys
           /\ kv_buf_timer' = res.timer
           /\ to_emitted' = res.em
           /\ to_prev' = res.prev
           /\ to_first' = FirstYielded(to_first, res.em)
           /\ to_in' = BagAdd(to_in, << key, val, t >>)
           /\ to_out' = Yielded(to_out, res.em)
           /\ to_lost' = Lost(to_lost, key, val, t)
    /\ UNCHANGED to_done
    /\ UNCHANGED to_others

\* self.gen() is exhausted: the final drain, then run returns.
TOEnd ==
    /\ ~to_done
    /\ LET res == FinalDrain(TOState, kv_buf_keys)
       IN  /\ to_emitted' = res.em
           /\ to_prev' = res.prev
           /\ to_first' = FirstYielded(to_first, res.em)
           /\ to_out' = Yielded(to_out, res.em)
    /\ to_done' = TRUE
    /\ UNCHANGED <<to_last_key_time, kv_buf, kv_buf_keys, kv_buf_timer, to_now,
                   to_count, to_entry, to_in, to_lost>>
    /\ UNCHANGED to_others

TONext ==
    \/ \E entry \in TOEntries, tick \in TOTicks :
          TOEntry(entry[1], entry[2], entry[3], tick)
    \/ TOEnd

(***************************************************************************)
(*                              MovingStat                                 *)
(***************************************************************************)

\* Numbers.  Values, sums, predictions and ratios are rationals <<n, d>> in
\* lowest terms with d > 0 (an input value v is <<v, 1>>), so that sum / N and
\* value / predicted are computed and compared exactly.  NoValue is None where
\* a number is expected.
NoValue == << >>

RECURSIVE Gcd(_, _)
Gcd(a, b) == IF b = 0 THEN a ELSE Gcd(b, a % b)

Abs(x) == IF x < 0 THEN 0 - x ELSE x

Rat(n, d) ==
    LET g == Gcd(Abs(n), Abs(d))
        sg == IF d < 0 THEN 0 - 1 ELSE 1
    IN  << (sg * n) \div g, (sg * d) \div g >>

RInt(n) == << n, 1 >>
RAdd(a, b) == Rat(a[1] * b[2] + b[1] * a[2], a[2] * b[2])
RSub(a, b) == Rat(a[1] * b[2] - b[1] * a[2], a[2] * b[2])
RDiv(a, b) == Rat(a[1] * b[2], a[2] * b[1])
RLt(a, b) == a[1] * b[2] < b[1] * a[2]

\* Python truthiness of a number or None: "if predicted", "self.inpaint_min and"
Truthy(x) == x # NoValue /\ x[1] # 0

\* ---- Python list operations, on 1-based sequences with 0-based indexes ----

\* A slice bound as list.__getitem__ / __setitem__ clip it.
PyBound(i, len) == IF i < 0 THEN (IF i + len < 0 THEN 0 ELSE i + len)
                   ELSE (IF i > len THEN len ELSE i)

\* s[lo:hi]
PySlice(s, lo, hi) ==
    LET a == PyBound(lo, Len(s))
        b == PyBound(hi, Len(s))
    IN  IF b <= a THEN << >> ELSE SubSeq(s, a + 1, b)

\* s[lo:hi] = rhs
PySliceAssign(s, lo, hi, rhs) ==
    LET a == PyBound(lo, Len(s))
        b0 == PyBound(hi, Len(s))
        b == IF b0 < a THEN a ELSE b0
    IN  SubSeq(s, 1, a) \o rhs \o SubSeq(s, b + 1, Len(s))

\* s[i] = x; the result is [ok, list], ok FALSE for an IndexError
PySetItem(s, i, x) ==
    LET j == IF i < 0 THEN i + Len(s) ELSE i
    IN  IF j < 0 \/ j >= Len(s) THEN [ok |-> FALSE, list |-> s]
        ELSE [ok |-> TRUE, list |-> [s EXCEPT ![j + 1] = x]]

\* bisect.bisect_right(a, x, lo, hi)
RECURSIVE BisectRight(_, _, _, _)
BisectRight(a, x, lo, hi) ==
    IF lo < hi
    THEN LET mid == (lo + hi) \div 2
         IN  IF RLt(x, a[mid + 1]) THEN BisectRight(a, x, lo, mid)
             ELSE BisectRight(a, x, mid + 1, hi)
    ELSE lo

\* Mutant of BisectLeft: the position after the items equal to x.
BisectLeftPastEqual(a, x, lo, hi) == BisectRight(a, x, lo, hi)

\* bisect.bisect_left(a, x, lo, hi)
RECURSIVE BisectLeft(_, _, _, _)
BisectLeft(a, x, lo, hi) ==
    IF lo < hi
    THEN LET mid == (lo + hi) \div 2
         IN  IF RLt(a[mid + 1], x) THEN BisectLeft(a, x, mid + 1, hi)
             ELSE BisectLeft(a, x, lo, mid)
    ELSE lo

\* bisect.insort(a, x)
Insort(a, x) ==
    LET i == BisectRight(a, x, 0, Len(a))
    IN  SubSeq(a, 1, i) \o << x >> \o SubSeq(a, i + 1, Len(a))

\* sorted(a)
RECURSIVE Sorted(_)
Sorted(a) == IF a = << >> THEN << >> ELSE Insort(Sorted(Tail(a)), Head(a))

\* list.remove(x): the first equal item goes; [ok, list], ok FALSE for a ValueError
ListRemove(a, x) ==
    LET hits == { i \in 1..Len(a) : a[i] = x }
    IN  IF hits = {} THEN [ok |-> FALSE, list |-> a]
        ELSE LET i == Min(hits)
             IN  [ok |-> TRUE, list |-> SubSeq(a, 1, i - 1) \o SubSeq(a, i + 1, Len(a))]

\* _sortedlist_add_remove(slist, additem, rmitem): [ok, list]
SortedlistAddRemove(slist, additem, rmitem) ==
    IF RLt(rmitem, additem)
    THEN LET left == BisectRight(slist, rmitem, 0, Len(slist))
             right == BisectLeft(slist, additem, left, Len(slist))
             s1 == PySliceAssign(slist, left - 1, right - 1, PySlice(slist, left, right))
         IN  PySetItem(s1, right - 1, additem)
    ELSE IF RLt(additem, rmitem)
    THEN LET left == BisectRight(slist, additem, 0, Len(slist))
             right == BisectLeft(slist, rmitem, left, Len(slist))
             s1 == PySliceAssign(slist, left + 1, right + 1, PySlice(slist, left, right))
         IN  PySetItem(s1, left, additem)
    ELSE [ok |-> TRUE, list |-> slist]

\* ---- the statistic classes ----

\* The values of a deque of (v, t) pairs: [v for v, t in vtq]
ValuesOf(vtq) == [i \in 1..Len(vtq) |-> vtq[i].v]

RECURSIVE RSum(_)
RSum(vals) == IF vals = << >> THEN RInt(0) ELSE RAdd(Head(vals), RSum(Tail(vals)))

\* StatBase.__init__ / Quantile.__init__ / Mean.__init__: aux.init is
\* is_initialized(); aux.values is Quantile.values, aux.sum is Mean.sum.
NewStat ==
    [vtq |-> << >>, raw_vtq |-> << >>,
     aux |-> [init |-> FALSE, values |-> << >>, sum |-> RInt(0)]]

\* Quantile.reset / Mean.reset
StatReset(data) == [data EXCEPT !.aux = [init |-> FALSE, values |-> << >>, sum |-> RInt(0)]]

\* Quantile.initialize / Mean.initialize
StatInitialize(cfg, data) ==
    IF cfg.stat = "quantile"
    THEN [data EXCEPT !.aux = [init |-> TRUE, values |-> Sorted(ValuesOf(data.vtq)),
                               sum |-> RInt(0)]]
    ELSE [data EXCEPT !.aux = [init |-> TRUE, values |-> << >>,
                               sum |-> RSum(ValuesOf(data.vtq))]]

\* Quantile.remove / Mean.remove: [err, data]
StatRemove(cfg, data, val) ==
    IF cfg.stat = "quantile"
    THEN LET r == ListRemove(data.aux.values, val)
         IN  [err |-> IF r.ok THEN "none" ELSE "ValueError",
              data |-> [data EXCEPT !.aux.values = r.list]]
    ELSE [err |-> "none", data |-> [data EXCEPT !.aux.sum = RSub(@, val)]]

\* Quantile.insert / Mean.insert
StatInsert(cfg, data, val) ==
    IF cfg.stat = "quantile"
    THEN [data EXCEPT !.aux.values = Insort(@, val)]
    ELSE [data EXCEPT !.aux.sum = RAdd(@, val)]

\* Quantile.insert_remove / Mean.insert_remove: [err, data]
StatInsertRemove(cfg, data, ins_val, rm_val) ==
    IF cfg.stat = "quantile"
    THEN LET r == SortedlistAddRemove(data.aux.values, ins_val, rm_val)
         IN  [err |-> IF r.ok THEN "none" ELSE "IndexError",
              data |-> [data EXCEPT !.aux.values = r.list]]
    ELSE [err |-> "none", data |-> [data EXCEPT !.aux.sum = RAdd(RSub(@, rm_val), ins_val)]]

\* The rank Quantile.prediction picks (0-based): ceil(N*k/q) - 1, 0 for k = 0.
QuantileRank(N, k, q) == IF k = 0 THEN 0 ELSE (0 - ((0 - N * k) \div q)) - 1

\* Quantile.prediction / Mean.prediction: [err, p], p = NoValue for None
StatPrediction(cfg, data) ==
    IF cfg.stat = "quantile"
    THEN LET N == Len(data.aux.values)
         IN  IF cfg.k # 0 /\ N = 0 THEN [err |-> "none", p |-> NoValue]
             ELSE IF N = 0 THEN [err |-> "IndexError", p |-> NoValue]
             ELSE [err |-> "none", p |-> data.aux.values[QuantileRank(N, cfg.k, cfg.q) + 1]]
    ELSE IF Len(data.vtq) = 0 THEN [err |-> "ZeroDivisionError", p |-> NoValue]
         ELSE [err |-> "none", p |-> RDiv(data.aux.sum, RInt(Len(data.vtq)))]

\* The configured statistic of a list of values, as the module documents it:
\* mean = sum / N; k'th q-quantile = the value at 0-based rank ceil(N*k/q) - 1
\* of the sorted values, rank 0 for k = 0; NoValue when there is no value.
StatOver(cfg, vals) ==
    IF vals = << >> THEN NoValue
    ELSE IF cfg.stat = "quantile"
    THEN Sorted(vals)[QuantileRank(Len(vals), cfg.k, cfg.q) + 1]
    ELSE RDiv(RSum(vals), RInt(Len(vals)))

\* The entries (v', t') of a deque with lo <= t' < hi, in the deque's order
RECURSIVE Between(_, _, _)
Between(vtq, lo, hi) ==
    IF vtq = << >> THEN << >>
    ELSE IF lo <= Head(vtq).t /\ Head(vtq).t < hi
    THEN << Head(vtq) >> \o Between(Tail(vtq), lo, hi)
    ELSE Between(Tail(vtq), lo, hi)

\* MovingStat.ratio_is_extreme, or lambda ratio: False without inpainting
ShouldInpaint(cfg, ratio) ==
    /\ cfg.inpainting
    /\ ratio # NoValue
    /\ \/ Truthy(cfg.inpaint_min) /\ RLt(ratio, cfg.inpaint_min)
       \/ Truthy(cfg.inpaint_max) /\ RLt(cfg.inpaint_max, ratio)

\* ---- the configurations and the inputs ----

MaxMSTime == 10       \* entry times are 1..MaxMSTime when entries come in time order
MaxMSAnyTime == 4     \* entry times are 1..MaxMSAnyTime when they come in any order
MaxMSDisorder == 1    \* at most this many entries with t <= last_key_time[key]

\* type median, warmup < inpainting.maxduration < history, as test_sentry.py
MedianConfig ==
    [stat |-> "quantile", k |-> 1, q |-> 2, warmup |-> 2, history |-> 4,
     minprediction |-> NoValue, inpainting |-> TRUE,
     inpaint_min |-> Rat(4, 5), inpaint_max |-> RInt(2), maxduration |-> 3,
     normalize |-> FALSE, include_absolute |-> FALSE]

\* minprediction set, inpainting.maxduration < warmup, absolute values included
ShortConfig ==
    [stat |-> "quantile", k |-> 1, q |-> 2, warmup |-> 2, history |-> 3,
     minprediction |-> RInt(3), inpainting |-> TRUE,
     inpaint_min |-> Rat(4, 5), inpaint_max |-> RInt(2), maxduration |-> 1,
     normalize |-> TRUE, include_absolute |-> TRUE]

\* type mean
MeanConfig ==
    [stat |-> "mean", k |-> None, q |-> None, warmup |-> 2, history |-> 3,
     minprediction |-> NoValue, inpainting |-> TRUE,
     inpaint_min |-> Rat(4, 5), inpaint_max |-> RInt(2), maxduration |-> 2,
     normalize |-> TRUE, include_absolute |-> FALSE]

\* type min, no inpainting
MinConfig ==
    [stat |-> "quantile", k |-> 0, q |-> 1, warmup |-> 1, history |-> 2,
     minprediction |-> NoValue, inpainting |-> FALSE,
     inpaint_min |-> NoValue, inpaint_max |-> NoValue, maxduration |-> None,
     normalize |-> TRUE, include_absolute |-> FALSE]

MSConfigs == { MedianConfig, ShortConfig, MeanConfig, MinConfig }

MSKeys == { "k1" }
MSValues == { NoValue, RInt(2), RInt(5) }

\* ---- the loop body of MovingStat.run ----

\* "while data.vtq and data.vtq[0][1] < window_start": [err, data]
RECURSIVE RemoveOld(_, _, _)
RemoveOld(cfg, data, window_start) ==
    IF data.vtq # << >> /\ data.vtq[1].t < window_start
    THEN LET oldest == Head(data.vtq)
             r == StatRemove(cfg, [data EXCEPT !.vtq = Tail(@)], oldest.v)
         IN  IF r.err # "none" THEN r ELSE RemoveOld(cfg, r.data, window_start)
    ELSE [err |-> "none", data |-> data]

\* Mutant of ContinueInpainting: an episode that started exactly maxduration
\* ago is continued.
ContinueInpaintingLate(inpaint_started, t, maxduration) ==
    inpaint_started >= t - maxduration

\* "elif inpaint_started > t - self.inpaint_maxduration"
ContinueInpainting(inpaint_started, t, maxduration) ==
    inpaint_started > t - maxduration

\* "ratio = value/predicted if predicted else None"
Ratio(value, predicted) == IF Truthy(predicted) THEN RDiv(value, predicted) ELSE NoValue

\* The value of the sample that is yielded
YieldValue(cfg, ratio, value, predicted) ==
    IF ~cfg.normalize THEN predicted
    ELSE IF ~cfg.include_absolute THEN ratio
    ELSE << ratio, value, predicted >>

\* What one pass of the loop body returns
Outcome(branch, err, data, em, extreme) ==
    [branch |-> branch, err |-> err, data |-> data, em |-> em, extreme |-> extreme]

\* data.vtq.append((newval, t)), the update of the statistic, and the yield
Store(cfg, data, key, value, newval, predicted, ratio, t, window_start, branch, extreme) ==
    LET d1 == [data EXCEPT !.vtq = Append(@, [v |-> newval, t |-> t])]
        r == IF d1.vtq[1].t > window_start
             THEN [err |-> "none", data |-> StatInsert(cfg, d1, newval)]
             ELSE StatInsertRemove(cfg, [d1 EXCEPT !.vtq = Tail(@)], newval, d1.vtq[1].v)
    IN  IF r.err # "none" THEN Outcome("error", r.err, r.data, << >>, extreme)
        ELSE Outcome(branch, "none", r.data,
                     << [key |-> key, value |-> YieldValue(cfg, ratio, value, predicted),
                         t |-> t, predicted |-> predicted, ratio |-> ratio] >>,
                     extreme)

\* Mutant of NewNormal: the raw deque is cleared but the window is kept.
NewNormalKeepsWindow(cfg, data, key, value, t, window_start) ==
    LET d1 == [data EXCEPT !.raw_vtq = << >>]
    IN  IF d1.vtq[1].t > t - cfg.warmup
        THEN Outcome("newnormal_reset", "none",
                     [StatReset(d1) EXCEPT !.vtq = Append(@, [v |-> value, t |-> t])],
                     << >>, TRUE)
        ELSE LET d2 == StatInitialize(cfg, d1)
                 p == StatPrediction(cfg, d2)
             IN  IF p.err # "none" THEN Outcome("error", p.err, d2, << >>, TRUE)
                 ELSE Store(cfg, d2, key, value, value, p.p, Ratio(value, p.p), t,
                            window_start, "newnormal", TRUE)

\* "Extreme is the new normal": the raw values become the window
NewNormal(cfg, data, key, value, t, window_start) ==
    LET d1 == [data EXCEPT !.vtq = data.raw_vtq, !.raw_vtq = << >>]
    IN  IF d1.vtq[1].t > t - cfg.warmup
        THEN Outcome("newnormal_reset", "none",
                     [StatReset(d1) EXCEPT !.vtq = Append(@, [v |-> value, t |-> t])],
                     << >>, TRUE)
        ELSE LET d2 == StatInitialize(cfg, d1)
                 p == StatPrediction(cfg, d2)
             IN  IF p.err # "none" THEN Outcome("error", p.err, d2, << >>, TRUE)
                 ELSE Store(cfg, d2, key, value, value, p.p, Ratio(value, p.p), t,
                            window_start, "newnormal", TRUE)

\* Mutant of CancelInpainting: the raw deque is kept.
CancelInpaintingKeepsRaw(data) == data

\* Line 358: "data.raw_vtq = None"
CancelInpainting(data) == [data EXCEPT !.raw_vtq = << >>]

\* The inpainting decision, from "newval = value" to the yield
Inpaint(cfg, data, key, value, predicted, t, window_start) ==
    LET ratio == Ratio(value, predicted)
        inpaint_started == IF data.raw_vtq # << >> THEN data.raw_vtq[1].t ELSE None
        started == inpaint_started # None /\ inpaint_started # 0
        raw1 == [data EXCEPT !.raw_vtq = Append(@, [v |-> value, t |-> t])]
    IN  IF ShouldInpaint(cfg, ratio)
        THEN IF ~started
             THEN Store(cfg, [data EXCEPT !.raw_vtq = << [v |-> value, t |-> t] >>],
                        key, value, predicted, predicted, ratio, t, window_start,
                        "start", TRUE)
             ELSE IF ContinueInpainting(inpaint_started, t, cfg.maxduration)
             THEN Store(cfg, raw1, key, value, predicted, predicted, ratio, t,
                        window_start, "continue", TRUE)
             ELSE NewNormal(cfg, data, key, value, t, window_start)
        ELSE IF started
        THEN Store(cfg, CancelInpainting(data), key, value, value, predicted,
                   ratio, t, window_start, "cancel", FALSE)
        ELSE Store(cfg, data, key, value, value, predicted, ratio, t, window_start,
                   "normal", FALSE)

\* Mutant of MinpredictionSkips: no prediction is too low.
MinpredictionSkipsNever(cfg, predicted) == FALSE

\* Lines 311-313: the predicted value is below the configured minprediction
MinpredictionSkips(cfg, predicted) ==
    /\ cfg.minprediction # NoValue
    /\ predicted # NoValue
    /\ RLt(predicted, cfg.minprediction)

\* The loop body for a non-null entry whose key has the state data
HandleSample(cfg, data, key, value, t) ==
    IF data.vtq = << >> \/ data.vtq[1].t > t - cfg.warmup
    THEN Outcome("warmup", "none", [data EXCEPT !.vtq = Append(@, [v |-> value, t |-> t])],
                 << >>, FALSE)
    ELSE LET window_start == t - cfg.history
             d1 == IF ~data.aux.init THEN StatInitialize(cfg, data) ELSE data
             r == RemoveOld(cfg, d1, window_start)
             p == StatPrediction(cfg, r.data)
         IN  IF r.err # "none" THEN Outcome("error", r.err, r.data, << >>, FALSE)
             ELSE IF p.err # "none" THEN Outcome("error", p.err, r.data, << >>, FALSE)
             ELSE IF MinpredictionSkips(cfg, p.p)
             THEN Outcome("skip", "none", r.data, << >>, FALSE)
             ELSE Inpaint(cfg, r.data, key, value, p.p, t, window_start)

\* MovingStat.__init__
MSStart(cfg) ==
    /\ ms_cfg = cfg
    /\ ms_data = EmptyDict
    /\ ms_last_key_time = EmptyDict
    /\ ms_error = "none"
    /\ ms_entry = << >>
    /\ ms_branch = "init"
    /\ ms_emitted = << >>
    /\ ms_extreme = FALSE
    /\ ms_pre = NewStat
    /\ ms_prev = EmptyDict
    /\ ms_disorder = 0

\* Mutant of DataPut: one statistic object is shared by all keys.
DataPutShared(d, key, data) == [k \in (DOMAIN d) \cup {key} |-> data]

\* Lines 268-273: the statistic object of the key, self.data[key], is the one
\* the loop body works on.
DataPut(d, key, data) == DictSet(d, key, data)

\* One iteration of "for entry in self.gen()"
MSEntry(key, value, t) ==
    /\ ms_error = "none"
    /\ ms_entry' = << key, value, t >>
    /\ IF value = NoValue
       THEN /\ ms_branch' = "null"
            /\ ms_emitted' = << >>
            /\ ms_extreme' = FALSE
            /\ ms_pre' = DictGet(ms_data, key, NewStat)
            /\ UNCHANGED << ms_cfg, ms_data, ms_last_key_time, ms_error, ms_prev,
                            ms_disorder >>
       ELSE LET data == DictGet(ms_data, key, NewStat)
                lkt == DictGet(ms_last_key_time, key, None)
                late == lkt # None /\ t <= lkt
                o == HandleSample(ms_cfg, data, key, value, t)
            IN  /\ ms_disorder' = IF late THEN ms_disorder + 1 ELSE ms_disorder
                /\ ms_last_key_time' = DictSet(ms_last_key_time, key, t)
                /\ ms_data' = DataPut(ms_data, key, o.data)
                /\ ms_error' = o.err
                /\ ms_branch' = o.branch
                /\ ms_extreme' = o.extreme
                /\ ms_pre' = data
                /\ ms_emitted' = [i \in 1..Len(o.em) |->
                                    [key |-> o.em[i].key, value |-> o.em[i].value,
                                     t |-> o.em[i].t, predicted |-> o.em[i].predicted,
                                     ratio |-> o.em[i].ratio,
                                     prev |-> DictGet(ms_prev, key, None)]]
                /\ ms_prev' = IF o.em = << >> THEN ms_prev ELSE DictSet(ms_prev, key, t)
                /\ UNCHANGED ms_cfg
    /\ UNCHANGED ms_others

\* The entries self.gen() can deliver next when every key's entries come in
\* time order: a time after the key's last one.  A null entry is dropped before
\* its time is looked at, so one time stands for all.
MSInOrder(key, value, t) ==
    LET lkt == DictGet(ms_last_key_time, key, 0)
    IN  IF value = NoValue THEN t = Min({lkt + 1, MaxMSTime}) ELSE t > lkt

MSNext ==
    \E key \in MSKeys, value \in MSValues, t \in 1..MaxMSTime :
        /\ MSInOrder(key, value, t)
        /\ MSEntry(key, value, t)

\* The entries self.gen() can deliver next when nothing orders them: a bounded
\* number of them may come at or before the key's last time.
MSAnyOrder(key, value, t) ==
    LET lkt == DictGet(ms_last_key_time, key, 0)
    IN  IF value = NoValue THEN t = Min({lkt + 1, MaxMSAnyTime})
        ELSE t > lkt \/ ms_disorder < MaxMSDisorder

MSAnyOrderNext ==
    \E key \in MSKeys, value \in MSValues, t \in 1..MaxMSAnyTime :
        /\ MSAnyOrder(key, value, t)
        /\ MSEntry(key, value, t)

\* Two keys whose entries interleave; each key's entries come in time order.
MaxMSPairTime == 3    \* entry times are 1..MaxMSPairTime when two keys interleave
MSKeyPair == { "k1", "k2" }

MSPairOrder(key, value, t) ==
    LET lkt == DictGet(ms_last_key_time, key, 0)
    IN  IF value = NoValue THEN t = Min({lkt + 1, MaxMSPairTime}) ELSE t > lkt

MSPairNext ==
    \E key \in MSKeyPair, value \in MSValues, t \in 1..MaxMSPairTime :
        /\ MSPairOrder(key, value, t)
        /\ MSEntry(key, value, t)

(***************************************************************************)
(*                              Datasource                                 *)
(*                                                                         *)
(* The reader thread and the consumer share one lock (the two conditions   *)
(* are built on it).  A block "with self.cond_x:" runs with the lock held, *)
(* so it is one step here, cut only where cond.wait() releases the lock;   *)
(* the reads of self.done outside the lock are steps of their own.         *)
(***************************************************************************)

MaxBatches == 3       \* batches the reader's I/O delivers in one run

NoList == [none |-> TRUE]
List(items) == [none |-> FALSE, items |-> items]

\* Mutant of NotifyProducable: the notify is lost.
NotifyProducableLost(rpc) == rpc

\* cond_producable.notify(): the reader, if it waits, is woken.
NotifyProducable(rpc) == IF rpc = "r_wait" THEN "r_check" ELSE rpc

\* cond_consumable.notify(): the consumer, if it waits, is woken.
NotifyConsumable(cpc) == IF cpc = "c_wait" THEN "c_check" ELSE cpc

\* Mutant of MustWaitProducable: the reader never waits for the slot.
MustWaitProducableNever(producable, done) == FALSE

\* "while not self.producable and not self.done" (Historical 86, Realtime 207)
MustWaitProducable(producable, done) == ~producable /\ ~done

\* Mutant of CheckResult: the end of the stream is taken before a published batch.
CheckResultEosFirst(consumable, reader_exc) ==
    IF reader_exc # "none" THEN "raised" ELSE "eos"

\* Mutant of CheckResult: the slot is taken whether it is consumable or not.
CheckResultTakesAlways(consumable, reader_exc) == "took"

\* Mutant of CheckResult: a reader exception is taken for the end of the stream.
CheckResultNoRaise(consumable, reader_exc) ==
    IF consumable THEN "took" ELSE "eos"

\* _Datasource.py 65-74: what the consumer does once its wait is over
CheckResult(consumable, reader_exc) ==
    IF consumable THEN "took"
    ELSE IF reader_exc # "none" THEN "raised"
    ELSE "eos"

\* Mutant of FinallyNotifies: the finally block notifies nobody.
FinallyNotifiesNone == { }

\* Mutant of FinallyNotifies: the finally block notifies both conditions.
FinallyNotifiesBoth == { "producable", "consumable" }

\* _Datasource.py 94-97: the conditions the finally block notifies
FinallyNotifies == { "producable" }

\* Datasource.__init__
DSStart(kind) ==
    /\ ds_kind = kind
    /\ ds_done = FALSE
    /\ ds_incoming = List(<< >>)
    /\ ds_producable = TRUE
    /\ ds_consumable = FALSE
    /\ ds_reader_exc = "none"
    /\ ds_rpc = "r_unstarted"
    /\ ds_cpc = "c_init"
    /\ ds_data = NoList
    /\ ds_requests = 0
    /\ ds_published = << >>
    /\ ds_taken = << >>
    /\ ds_outcome = "none"
    /\ ds_check = [exc |-> FALSE, consumable |-> FALSE, result |-> "none"]
    /\ ds_notified = { }
    /\ ds_woken = FALSE
    /\ ds_yielded = << >>
    /\ ds_clobbered = FALSE

\* ---- the reader thread ----

\* "while not self.done" (Historical 111, Realtime 186): done is read without the lock
RLoop ==
    /\ ds_rpc = "r_loop"
    /\ ds_rpc' = IF ds_done THEN "r_exit" ELSE "r_io"
    /\ UNCHANGED <<ds_kind, ds_done, ds_incoming, ds_producable, ds_consumable,
                   ds_reader_exc, ds_cpc, ds_data, ds_requests, ds_published,
                   ds_taken, ds_outcome, ds_check, ds_notified, ds_woken, ds_yielded, ds_clobbered>>
    /\ UNCHANGED ds_others

\* The I/O call returned a batch (requests.post and its response, or a Kafka
\* message without error).
RIoBatch ==
    /\ ds_rpc = "r_io"
    /\ ds_requests < MaxBatches
    /\ ds_requests' = ds_requests + 1
    /\ ds_rpc' = "r_check"
    /\ UNCHANGED <<ds_kind, ds_done, ds_incoming, ds_producable, ds_consumable,
                   ds_reader_exc, ds_cpc, ds_data, ds_published, ds_taken,
                   ds_outcome, ds_check, ds_notified, ds_woken, ds_yielded, ds_clobbered>>
    /\ UNCHANGED ds_others

\* The I/O call says there is no more: make_next_request returns False
\* (Historical 60-61), poll returns None (Realtime 199-201).
RIoEnd ==
    /\ ds_rpc = "r_io"
    /\ ds_rpc' = "r_exit"
    /\ UNCHANGED <<ds_kind, ds_done, ds_incoming, ds_producable, ds_consumable,
                   ds_reader_exc, ds_cpc, ds_data, ds_requests, ds_published,
                   ds_taken, ds_outcome, ds_check, ds_notified, ds_woken, ds_yielded, ds_clobbered>>
    /\ UNCHANGED ds_others

\* The I/O call raises (connection error, bad status, connect or poll failing).
RIoRaise ==
    /\ ds_rpc = "r_io"
    /\ ds_rpc' = "r_except"
    /\ UNCHANGED <<ds_kind, ds_done, ds_incoming, ds_producable, ds_consumable,
                   ds_reader_exc, ds_cpc, ds_data, ds_requests, ds_published,
                   ds_taken, ds_outcome, ds_check, ds_notified, ds_woken, ds_yielded, ds_clobbered>>
    /\ UNCHANGED ds_others

\* Realtime 222-223: a benign Kafka error is ignored.
RIoIgnored ==
    /\ ds_rpc = "r_io"
    /\ ds_kind = "realtime"
    /\ ds_rpc' = "r_loop"
    /\ UNCHANGED <<ds_kind, ds_done, ds_incoming, ds_producable, ds_consumable,
                   ds_reader_exc, ds_cpc, ds_data, ds_requests, ds_published,
                   ds_taken, ds_outcome, ds_check, ds_notified, ds_woken, ds_yielded, ds_clobbered>>
    /\ UNCHANGED ds_others

\* Realtime 224-232: an unhandled Kafka error is stored as the reader's
\* exception, and the loop is left.
RIoKafkaError ==
    /\ ds_rpc = "r_io"
    /\ ds_kind = "realtime"
    /\ ds_reader_exc' = "RuntimeError"
    /\ ds_done' = TRUE
    /\ ds_cpc' = NotifyConsumable(ds_cpc)
    /\ ds_rpc' = "r_exit"
    /\ UNCHANGED <<ds_kind, ds_incoming, ds_producable, ds_consumable, ds_data,
                   ds_requests, ds_published, ds_taken, ds_outcome, ds_check,
                   ds_notified, ds_woken, ds_yielded, ds_clobbered>>
    /\ UNCHANGED ds_others

\* "wait for self.incoming to be empty" (Historical 84-93, Realtime 205-212)
RCheck ==
    /\ ds_rpc = "r_check"
    /\ IF MustWaitProducable(ds_producable, ds_done)
       THEN /\ ds_rpc' = "r_wait"
            /\ UNCHANGED <<ds_incoming, ds_producable, ds_clobbered>>
       ELSE IF ds_kind = "historical" /\ ds_done
       THEN /\ ds_rpc' = "r_loop"                      \* Historical 89-90: return
            /\ UNCHANGED <<ds_incoming, ds_producable, ds_clobbered>>
       ELSE /\ ds_incoming' = List(<< >>)
            /\ ds_producable' = FALSE
            /\ ds_clobbered' = (ds_clobbered \/ ds_consumable)
            /\ ds_rpc' = IF ds_kind = "historical" THEN "r_fill" ELSE "r_donecheck"
    /\ UNCHANGED <<ds_kind, ds_done, ds_consumable, ds_reader_exc, ds_cpc, ds_data,
                   ds_requests, ds_published, ds_taken, ds_outcome, ds_check,
                   ds_notified, ds_woken, ds_yielded>>
    /\ UNCHANGED ds_others

\* Realtime 213-214: "if self.done: break", read without the lock
RDoneCheck ==
    /\ ds_rpc = "r_donecheck"
    /\ ds_rpc' = IF ds_done THEN "r_exit" ELSE "r_fill"
    /\ UNCHANGED <<ds_kind, ds_done, ds_incoming, ds_producable, ds_consumable,
                   ds_reader_exc, ds_cpc, ds_data, ds_requests, ds_published,
                   ds_taken, ds_outcome, ds_check, ds_notified, ds_woken, ds_yielded, ds_clobbered>>
    /\ UNCHANGED ds_others

\* The batch is appended to self.incoming, outside the lock (Historical 94-101,
\* Realtime 215-216 and 179); None has no append.
RFill ==
    /\ ds_rpc = "r_fill"
    /\ IF ds_incoming.none
       THEN /\ ds_rpc' = "r_except"
            /\ UNCHANGED ds_incoming
       ELSE /\ ds_incoming' = List(Append(ds_incoming.items, ds_requests))
            /\ ds_rpc' = "r_publish"
    /\ UNCHANGED <<ds_kind, ds_done, ds_producable, ds_consumable, ds_reader_exc,
                   ds_cpc, ds_data, ds_requests, ds_published, ds_taken, ds_outcome,
                   ds_check, ds_notified, ds_woken, ds_yielded, ds_clobbered>>
    /\ UNCHANGED ds_others

\* The batch cannot be parsed: int(), the assert of handle_msg or a missing
\* field raises while the slot is being filled.
RFillRaise ==
    /\ ds_rpc = "r_fill"
    /\ ds_rpc' = "r_except"
    /\ UNCHANGED <<ds_kind, ds_done, ds_incoming, ds_producable, ds_consumable,
                   ds_reader_exc, ds_cpc, ds_data, ds_requests, ds_published,
                   ds_taken, ds_outcome, ds_check, ds_notified, ds_woken, ds_yielded, ds_clobbered>>
    /\ UNCHANGED ds_others

\* "tell computation thread that self.incoming is now full" (Historical 103-106,
\* Realtime 218-221)
RPublish ==
    /\ ds_rpc = "r_publish"
    /\ ds_consumable' = TRUE
    /\ ds_cpc' = NotifyConsumable(ds_cpc)
    /\ ds_published' = Append(ds_published, ds_incoming)
    /\ ds_rpc' = "r_loop"
    /\ UNCHANGED <<ds_kind, ds_done, ds_incoming, ds_producable, ds_reader_exc,
                   ds_data, ds_requests, ds_taken, ds_outcome, ds_check,
                   ds_notified, ds_woken, ds_yielded, ds_clobbered>>
    /\ UNCHANGED ds_others

\* reader_thread 33: reader_body has returned; done is read without the lock
RExit ==
    /\ ds_rpc = "r_exit"
    /\ ds_rpc' = IF ds_done THEN "r_end" ELSE "r_setdone"
    /\ UNCHANGED <<ds_kind, ds_done, ds_incoming, ds_producable, ds_consumable,
                   ds_reader_exc, ds_cpc, ds_data, ds_requests, ds_published,
                   ds_taken, ds_outcome, ds_check, ds_notified, ds_woken, ds_yielded, ds_clobbered>>
    /\ UNCHANGED ds_others

\* reader_thread 34-37
RSetDone ==
    /\ ds_rpc = "r_setdone"
    /\ ds_done' = TRUE
    /\ ds_cpc' = NotifyConsumable(ds_cpc)
    /\ ds_rpc' = "r_end"
    /\ UNCHANGED <<ds_kind, ds_incoming, ds_producable, ds_consumable,
                   ds_reader_exc, ds_data, ds_requests, ds_published, ds_taken,
                   ds_outcome, ds_check, ds_notified, ds_woken, ds_yielded, ds_clobbered>>
    /\ UNCHANGED ds_others

\* reader_thread 38-45: the exception is stored for the consumer
RExcept ==
    /\ ds_rpc = "r_except"
    /\ ds_reader_exc' = "Exception"
    /\ ds_done' = TRUE
    /\ ds_cpc' = NotifyConsumable(ds_cpc)
    /\ ds_rpc' = "r_end"
    /\ UNCHANGED <<ds_kind, ds_incoming, ds_producable, ds_consumable, ds_data,
                   ds_requests, ds_published, ds_taken, ds_outcome, ds_check,
                   ds_notified, ds_woken, ds_yielded, ds_clobbered>>
    /\ UNCHANGED ds_others

Reader ==
    \/ RLoop \/ RIoBatch \/ RIoEnd \/ RIoRaise \/ RIoIgnored \/ RIoKafkaError
    \/ RCheck \/ RDoneCheck \/ RFill \/ RFillRaise \/ RPublish
    \/ RExit \/ RSetDone \/ RExcept

\* ---- the consumer: the generator Datasource.run ----

\* _Datasource.py 55: self.reader.start()
CStart ==
    /\ ds_cpc = "c_init"
    /\ ds_rpc' = "r_loop"
    /\ ds_cpc' = "c_check"
    /\ UNCHANGED <<ds_kind, ds_done, ds_incoming, ds_producable, ds_consumable,
                   ds_reader_exc, ds_data, ds_requests, ds_published, ds_taken,
                   ds_outcome, ds_check, ds_notified, ds_woken, ds_yielded, ds_clobbered>>
    /\ UNCHANGED ds_others

\* _Datasource.py 59-77: wait for the reader to fill self.incoming, then take
\* the batch, raise the reader's exception, or leave the loop.
CCheck ==
    /\ ds_cpc = "c_check"
    /\ IF ~ds_consumable /\ ~ds_done
       THEN /\ ds_cpc' = "c_wait"
            /\ UNCHANGED <<ds_incoming, ds_consumable, ds_data, ds_taken, ds_outcome,
                           ds_check>>
       ELSE LET result == CheckResult(ds_consumable, ds_reader_exc)
            IN  /\ ds_check' = [exc |-> ds_reader_exc # "none",
                                consumable |-> ds_consumable, result |-> result]
                /\ IF result = "took"
                   THEN /\ ds_data' = ds_incoming
                        /\ ds_incoming' = NoList
                        /\ ds_consumable' = FALSE
                        /\ ds_taken' = Append(ds_taken, ds_incoming)
                        /\ ds_cpc' = "c_prod"
                        /\ UNCHANGED ds_outcome
                   ELSE /\ ds_data' = NoList
                        /\ ds_outcome' = result
                        /\ ds_cpc' = "c_finally"
                        /\ UNCHANGED <<ds_incoming, ds_consumable, ds_taken>>
    /\ UNCHANGED <<ds_kind, ds_done, ds_producable, ds_reader_exc, ds_rpc,
                   ds_requests, ds_published, ds_notified, ds_woken, ds_yielded, ds_clobbered>>
    /\ UNCHANGED ds_others

\* _Datasource.py 79-89: the slot may be refilled; then the entries of the
\* batch are yielded (a batch without entries yields nothing).
CProd ==
    /\ ds_cpc = "c_prod"
    /\ ds_producable' = TRUE
    /\ ds_rpc' = NotifyProducable(ds_rpc)
    /\ ds_cpc' = IF ds_data.items = << >> THEN "c_check" ELSE "c_yield"
    /\ ds_yielded' = ds_yielded \o ds_data.items
    /\ UNCHANGED <<ds_kind, ds_done, ds_incoming, ds_consumable, ds_reader_exc,
                   ds_data, ds_requests, ds_published, ds_taken, ds_outcome,
                   ds_check, ds_notified, ds_woken, ds_clobbered>>
    /\ UNCHANGED ds_others

\* The pipeline asks for the next entry: the generator resumes after its yield.
CResume ==
    /\ ds_cpc = "c_yield"
    /\ ds_cpc' = "c_check"
    /\ UNCHANGED <<ds_kind, ds_done, ds_incoming, ds_producable, ds_consumable,
                   ds_reader_exc, ds_rpc, ds_data, ds_requests, ds_published,
                   ds_taken, ds_outcome, ds_check, ds_notified, ds_woken, ds_yielded, ds_clobbered>>
    /\ UNCHANGED ds_others

\* The pipeline stops early: the generator is closed, or an exception is
\* thrown into it, at its yield.
CClose ==
    /\ ds_cpc = "c_yield"
    /\ ds_outcome' = "closed"
    /\ ds_cpc' = "c_finally"
    /\ UNCHANGED <<ds_kind, ds_done, ds_incoming, ds_producable, ds_consumable,
                   ds_reader_exc, ds_rpc, ds_data, ds_requests, ds_published,
                   ds_taken, ds_check, ds_notified, ds_woken, ds_yielded, ds_clobbered>>
    /\ UNCHANGED ds_others

\* _Datasource.py 92: "if not self.done", read without the lock
CFinally ==
    /\ ds_cpc = "c_finally"
    /\ ds_cpc' = IF ds_done THEN "c_join" ELSE "c_setdone"
    /\ UNCHANGED <<ds_kind, ds_done, ds_incoming, ds_producable, ds_consumable,
                   ds_reader_exc, ds_rpc, ds_data, ds_requests, ds_published,
                   ds_taken, ds_outcome, ds_check, ds_notified, ds_woken, ds_yielded, ds_clobbered>>
    /\ UNCHANGED ds_others

\* _Datasource.py 94-97: "notify producer that we're stopping early"
CSetDone ==
    /\ ds_cpc = "c_setdone"
    /\ ds_done' = TRUE
    /\ ds_rpc' = IF "producable" \in FinallyNotifies THEN NotifyProducable(ds_rpc)
                 ELSE ds_rpc
    /\ ds_notified' = FinallyNotifies
    /\ ds_woken' = (ds_rpc = "r_wait" /\ "producable" \in FinallyNotifies)
    /\ ds_cpc' = "c_join"
    /\ UNCHANGED <<ds_kind, ds_incoming, ds_producable, ds_consumable,
                   ds_reader_exc, ds_data, ds_requests, ds_published, ds_taken,
                   ds_outcome, ds_check, ds_yielded, ds_clobbered>>
    /\ UNCHANGED ds_others

\* _Datasource.py 99: self.reader.join() returns once the reader thread has ended
CJoin ==
    /\ ds_cpc = "c_join"
    /\ ds_rpc = "r_end"
    /\ ds_cpc' = "c_end"
    /\ UNCHANGED <<ds_kind, ds_done, ds_incoming, ds_producable, ds_consumable,
                   ds_reader_exc, ds_rpc, ds_data, ds_requests, ds_published,
                   ds_taken, ds_outcome, ds_check, ds_notified, ds_woken, ds_yielded, ds_clobbered>>
    /\ UNCHANGED ds_others

\* The steps the consumer takes by itself once it was asked for an entry
Consumer == CStart \/ CCheck \/ CProd \/ CFinally \/ CSetDone \/ CJoin

DSNext == Reader \/ Consumer \/ CResume \/ CClose

(***************************************************************************)
(*                              AlertKafka                                 *)
(***************************************************************************)

MaxAKTime == 3        \* the times of the entries are 1..MaxAKTime, in any order

STATUS_NORMAL == 0
STATUS_HIGH == 1
STATUS_LOW == 0 - 1

\* Configuration: the thresholds of the module's documentation, and a
\* minduration of two time units.
AKMin == Rat(1, 2)
AKMax == RInt(2)
AKMinduration == 2

\* Configurations: min, max or both; minduration absent, 0 or AKMinduration.
AKConfigs ==
    { c \in [min : { NoValue, AKMin }, max : { NoValue, AKMax },
             minduration : { None, 0, AKMinduration }, waitnormal : BOOLEAN] :
        c.min # NoValue \/ c.max # NoValue }

\* The configuration of the module's documentation example
AKDefaultConfig ==
    [min |-> AKMin, max |-> AKMax, minduration |-> AKMinduration, waitnormal |-> FALSE]

AKKeys == { "k1" }

\* The ratios: null, below min, min itself, normal, above max.
AKValues == { NoValue, Rat(1, 4), AKMin, RInt(1), RInt(3) }

\* An entry's value is a ratio, or the tuple (ratio, actual, predicted) that
\* MovingStat yields with include_absolute.
AKEntries ==
    { [key |-> k, value |-> v, actual |-> a, predicted |-> a, t |-> t] :
        k \in AKKeys, v \in AKValues, a \in { NoValue, RInt(7) }, t \in 1..MaxAKTime }

\* AlertKafka.run 143-151: the status of a value
AKStatusOf(cfg, value) ==
    IF cfg.min # NoValue /\ RLt(value, cfg.min) THEN STATUS_LOW
    ELSE IF cfg.max # NoValue /\ RLt(cfg.max, value) THEN STATUS_HIGH
    ELSE STATUS_NORMAL

\* AlertKafka._produce_alert: the fields of the alert record that vary
ProduceAlert(status, t, key, value, actual, predicted) ==
    [level |-> IF status # 0 THEN "critical" ELSE "normal",
     time |-> t,
     expression |-> key,
     condition |-> status,
     value |-> IF actual = NoValue THEN value ELSE actual,
     history_value |-> predicted]

\* The tuple stored in alert_state and normal_state
AKState(t, value, actual, predicted) ==
    [t |-> t, value |-> value, actual |-> actual, predicted |-> predicted]

AKNoState == [t |-> None]

\* "self.minduration is None or self.minduration == 0" (line 159)
MindurationDisabled(cfg) == cfg.minduration = None \/ cfg.minduration = 0

\* What one iteration does to the three dicts, and the alerts it produces.
AKResult(status, alert_state, normal_state, out) ==
    [alert_status |-> status, alert_state |-> alert_state,
     normal_state |-> normal_state, out |-> out]

\* Mutant of BackToNormal: a suppressed event that ends produces a normal alert.
BackToNormalAlerts(cfg, e, alert_state, normal_state) ==
    AKResult(STATUS_NORMAL,
             IF e.key \in DOMAIN alert_state THEN DictDel(alert_state, e.key)
             ELSE alert_state,
             normal_state,
             << ProduceAlert(STATUS_NORMAL, e.t, e.key, e.value, e.actual, e.predicted) >>)

\* AlertKafka.run 163-189: the status changed to normal, minduration is set
BackToNormal(cfg, e, alert_state, normal_state) ==
    IF e.key \in DOMAIN alert_state
    THEN AKResult(STATUS_NORMAL, DictDel(alert_state, e.key), normal_state, << >>)
    ELSE IF cfg.waitnormal /\ e.key \notin DOMAIN normal_state
    THEN AKResult(STATUS_NORMAL, alert_state,
                  DictSet(normal_state, e.key,
                          AKState(e.t, e.value, e.actual, e.predicted)), << >>)
    ELSE IF ~cfg.waitnormal
    THEN AKResult(STATUS_NORMAL, alert_state, normal_state,
                  << ProduceAlert(STATUS_NORMAL, e.t, e.key, e.value, e.actual,
                                  e.predicted) >>)
    ELSE AKResult(STATUS_NORMAL, alert_state, normal_state, << >>)

\* AlertKafka.run 192-211: the status changed to high or low, minduration is set
EventStarts(cfg, e, status, alert_state, normal_state) ==
    IF cfg.waitnormal /\ e.key \in DOMAIN normal_state
    THEN AKResult(status, alert_state, DictDel(normal_state, e.key), << >>)
    ELSE AKResult(status,
                  DictSet(alert_state, e.key,
                          AKState(e.t, e.value, e.actual, e.predicted)),
                  normal_state, << >>)

\* Mutant of EventContinues: the alert carries the current sample's time and value.
EventContinuesCurrent(cfg, e, status, alert_state, normal_state) ==
    IF e.key \in DOMAIN alert_state
    THEN IF alert_state[e.key].t + cfg.minduration <= e.t
         THEN AKResult(status, DictDel(alert_state, e.key), normal_state,
                       << ProduceAlert(status, e.t, e.key, e.value, e.actual,
                                       e.predicted) >>)
         ELSE AKResult(status, alert_state, normal_state, << >>)
    ELSE AKResult(status, alert_state, normal_state, << >>)

\* AlertKafka.run 212-228: continuation of a high or low status
EventContinues(cfg, e, status, alert_state, normal_state) ==
    IF e.key \in DOMAIN alert_state
    THEN LET init == alert_state[e.key]
         IN  IF init.t + cfg.minduration <= e.t
             THEN AKResult(status, DictDel(alert_state, e.key), normal_state,
                           << ProduceAlert(status, init.t, e.key, init.value,
                                           init.actual, init.predicted) >>)
             ELSE AKResult(status, alert_state, normal_state, << >>)
    ELSE AKResult(status, alert_state, normal_state, << >>)

\* Mutant of NormalContinues: the suppressed return to normal stays pending
\* after its alert was produced.
NormalContinuesRepeats(cfg, e, alert_state, normal_state) ==
    IF cfg.waitnormal /\ e.key \in DOMAIN normal_state
    THEN LET init == normal_state[e.key]
         IN  IF init.t + cfg.minduration <= e.t
             THEN AKResult(STATUS_NORMAL, alert_state, normal_state,
                           << ProduceAlert(STATUS_NORMAL, init.t, e.key, init.value,
                                           init.actual, init.predicted) >>)
             ELSE AKResult(STATUS_NORMAL, alert_state, normal_state, << >>)
    ELSE AKResult(STATUS_NORMAL, alert_state, normal_state, << >>)

\* AlertKafka.run 230-246: continuation of normal
NormalContinues(cfg, e, alert_state, normal_state) ==
    IF cfg.waitnormal /\ e.key \in DOMAIN normal_state
    THEN LET init == normal_state[e.key]
         IN  IF init.t + cfg.minduration <= e.t
             THEN AKResult(STATUS_NORMAL, alert_state, DictDel(normal_state, e.key),
                           << ProduceAlert(STATUS_NORMAL, init.t, e.key, init.value,
                                           init.actual, init.predicted) >>)
             ELSE AKResult(STATUS_NORMAL, alert_state, normal_state, << >>)
    ELSE AKResult(STATUS_NORMAL, alert_state, normal_state, << >>)

\* AlertKafka.run 140-246: one iteration for an entry whose value is not null;
\* old_status is alert_status[key] after line 140-142.
AKHandleEntry(cfg, e, old_status, alert_state, normal_state) ==
    LET status == AKStatusOf(cfg, e.value)
    IN  IF status # old_status
        THEN IF MindurationDisabled(cfg)
             THEN AKResult(status, alert_state, normal_state,
                           << ProduceAlert(status, e.t, e.key, e.value, e.actual,
                                           e.predicted) >>)
             ELSE IF status = STATUS_NORMAL
             THEN BackToNormal(cfg, e, alert_state, normal_state)
             ELSE EventStarts(cfg, e, status, alert_state, normal_state)
        ELSE IF status # STATUS_NORMAL
        THEN EventContinues(cfg, e, status, alert_state, normal_state)
        ELSE NormalContinues(cfg, e, alert_state, normal_state)

\* The critical alerts among the alerts produced
Criticals(out) == { i \in 1..Len(out) : out[i].level = "critical" }

\* AlertKafka.__init__
AKStart(cfg) ==
    /\ ak_cfg = cfg
    /\ ak_alert_status = EmptyDict
    /\ ak_alert_state = EmptyDict
    /\ ak_normal_state = EmptyDict
    /\ ak_entry = [key |-> "none"]
    /\ ak_pre = [status |-> STATUS_NORMAL, pending |-> AKNoState, owed |-> FALSE,
                 crit |-> 0, last |-> "none"]
    /\ ak_out = << >>
    /\ ak_owed = [k \in AKKeys |-> FALSE]
    /\ ak_crit = [k \in AKKeys |-> 0]
    /\ ak_last = [k \in AKKeys |-> "none"]

\* AlertKafka.run 123-138: an entry with a null value is skipped
AKSkip(e) ==
    /\ e.value = NoValue
    /\ ak_entry' = e
    /\ ak_pre' = [status |-> DictGet(ak_alert_status, e.key, STATUS_NORMAL),
                  pending |-> DictGet(ak_alert_state, e.key, AKNoState),
                  owed |-> ak_owed[e.key], crit |-> ak_crit[e.key],
                  last |-> ak_last[e.key]]
    /\ ak_out' = << >>
    /\ UNCHANGED <<ak_cfg, ak_alert_status, ak_alert_state, ak_normal_state,
                   ak_owed, ak_crit, ak_last>>
    /\ UNCHANGED ak_others

\* AlertKafka.run 123-246: one iteration of the loop for an entry with a value
AKEntry(e) ==
    /\ e.value # NoValue
    /\ LET old_status == DictGet(ak_alert_status, e.key, STATUS_NORMAL)
           r == AKHandleEntry(ak_cfg, e, old_status, ak_alert_state, ak_normal_state)
           crit == IF r.alert_status # old_status THEN Cardinality(Criticals(r.out))
                   ELSE Min({ 2, ak_crit[e.key] + Cardinality(Criticals(r.out)) })
       IN  /\ ak_alert_status' = DictSet(ak_alert_status, e.key, r.alert_status)
           /\ ak_alert_state' = r.alert_state
           /\ ak_normal_state' = r.normal_state
           /\ ak_out' = r.out
           /\ ak_entry' = e
           /\ ak_pre' = [status |-> old_status,
                         pending |-> DictGet(ak_alert_state, e.key, AKNoState),
                         owed |-> ak_owed[e.key], crit |-> ak_crit[e.key],
                         last |-> ak_last[e.key]]
           /\ ak_last' = [ak_last EXCEPT ![e.key] =
                            IF r.out = << >> THEN @ ELSE r.out[Len(r.out)].level]
           /\ ak_crit' = [ak_crit EXCEPT ![e.key] = crit]
           /\ ak_owed' = [ak_owed EXCEPT ![e.key] =
                            IF Criticals(r.out) # { } THEN TRUE
                            ELSE IF r.alert_status = STATUS_NORMAL THEN FALSE
                            ELSE @]
    /\ UNCHANGED ak_cfg
    /\ UNCHANGED ak_others

AKNext == \E e \in AKEntries : AKSkip(e) \/ AKEntry(e)

(***************************************************************************)
(*                     The pipeline DataIn -> DataOut                      *)
(***************************************************************************)

MaxIOInputs == 2      \* entries of the input list

\* Strings are sequences of code points, byte strings sequences of bytes.
PyStr(chars) == [str |-> chars]
PyBytes(octets) == [bytes |-> octets]

\* Keys of the input: "a", "a.b", and "é", which is not ASCII.
IOKeys == { PyStr(<< 97 >>), PyStr(<< 97, 46, 98 >>), PyStr(<< 233 >>) }

IOEntries == { << k, v, t >> : k \in IOKeys, v \in { None, 1 }, t \in { 1, 2 } }

RECURSIVE ListsOf(_, _)
ListsOf(S, n) ==
    IF n = 0 THEN { << >> }
    ELSE LET shorter == ListsOf(S, n - 1)
         IN  shorter \cup { Append(l, x) : l \in { m \in shorter : Len(m) = n - 1 }, x \in S }

\* bytes(key, 'ascii'): raises UnicodeEncodeError on a code point above 127
BytesAscii(key) ==
    IF \A i \in 1..Len(key.str) : key.str[i] < 128
    THEN [ok |-> TRUE, value |-> PyBytes(key.str)]
    ELSE [ok |-> FALSE]

\* Mutant of StrAscii: the key is left as the byte string.
StrAsciiKeepsBytes(key) == [ok |-> TRUE, value |-> key]

\* str(key, 'ascii'): raises UnicodeDecodeError on a byte above 127
StrAscii(key) ==
    IF \A i \in 1..Len(key.bytes) : key.bytes[i] < 128
    THEN [ok |-> TRUE, value |-> PyStr(key.bytes)]
    ELSE [ok |-> FALSE]

\* DataIn.__init__ and DataOut.__init__, the output list being empty
IOStart(input) ==
    /\ io_input = input
    /\ io_pos = 0
    /\ io_output = << >>
    /\ io_pc = "running"

\* One iteration of DataOut.run's loop: DataIn.run yields its next entry
\* (DataIn 34-37) and DataOut.run appends it (DataOut 32-35).
IOPull ==
    /\ io_pc = "running"
    /\ io_pos < Len(io_input)
    /\ LET entry == io_input[io_pos + 1]
           encoded == BytesAscii(entry[1])
       IN  /\ io_pos' = io_pos + 1
           /\ IF ~encoded.ok
              THEN /\ io_pc' = "error"
                   /\ UNCHANGED io_output
              ELSE LET decoded == StrAscii(encoded.value)
                   IN  IF ~decoded.ok
                       THEN /\ io_pc' = "error"
                            /\ UNCHANGED io_output
                       ELSE /\ io_output' = Append(io_output,
                                                   << decoded.value, entry[2], entry[3] >>)
                            /\ UNCHANGED io_pc
    /\ UNCHANGED io_input
    /\ UNCHANGED io_others

\* DataIn.run is exhausted: both loops end (DataIn 39, DataOut 36).
IOEnd ==
    /\ io_pc = "running"
    /\ io_pos = Len(io_input)
    /\ io_pc' = "done"
    /\ UNCHANGED <<io_input, io_pos, io_output>>
    /\ UNCHANGED io_others

IONext == IOPull \/ IOEnd

(***************************************************************************)
(*                 Sentry.__init__: the roles of the stages                *)
(***************************************************************************)

MaxStages == 3        \* modules in config['pipeline']

\* The classes a module's class derives from: a Source, a Sink, neither (a
\* filter), or both.
RCRoles == { { "Source" }, { "Sink" }, { }, { "Source", "Sink" } }

\* Mutant of RoleMismatch: only the place of the Source is checked.
RoleMismatchSourceOnly(roles, i, n) == ("Source" \in roles) # (i = 0)

\* sentry.py 68-74: stage i (counted from 0) of n is refused
RoleMismatch(roles, i, n) ==
    \/ ("Source" \in roles) # (i = 0)
    \/ ("Sink" \in roles) # (i = n - 1)

\* Sentry.__init__ 47-49, with the configuration given
RCStart(pipeline) ==
    /\ rc_pipeline = pipeline
    /\ rc_i = 0
    /\ rc_role_ok = FALSE
    /\ rc_result = "checking"

\* sentry.py 50-100: the loop body for one module
RCStage ==
    /\ rc_result = "checking"
    /\ rc_i < Len(rc_pipeline)
    /\ IF RoleMismatch(rc_pipeline[rc_i + 1], rc_i, Len(rc_pipeline))
       THEN /\ rc_result' = "UserError"
            /\ UNCHANGED rc_i
       ELSE /\ rc_i' = rc_i + 1
            /\ UNCHANGED rc_result
    /\ UNCHANGED <<rc_pipeline, rc_role_ok>>
    /\ UNCHANGED rc_others

\* sentry.py 102-103: the loop has ended; the configuration is validated
\* against the schema, which asks for two modules or more (line 26).
RCValidate ==
    /\ rc_result = "checking"
    /\ rc_i = Len(rc_pipeline)
    /\ rc_role_ok' = TRUE
    /\ rc_result' = IF Len(rc_pipeline) >= 2 THEN "ok" ELSE "UserError"
    /\ UNCHANGED <<rc_pipeline, rc_i>>
    /\ UNCHANGED rc_others

RCNext == RCStage \/ RCValidate

(***************************************************************************)
(*                        _sortedlist_add_remove                           *)
(***************************************************************************)

MaxSLLen == 4         \* items of the sorted list
MaxSLValue == 3       \* the items are 1..MaxSLValue

SLValues == { RInt(v) : v \in 1..MaxSLValue }

\* The items of a list
Items(slist) == { slist[i] : i \in 1..Len(slist) }

\* A sorted list, as Quantile.initialize leaves self.values (line 187)
SLStart(slist) ==
    /\ sl_list = slist
    /\ sl_call = [slist |-> << >>, additem |-> NoValue, rmitem |-> NoValue]
    /\ sl_ok = TRUE

\* _sortedlist_add_remove(slist, additem, rmitem) for an rmitem that is in
\* slist, as Quantile.insert_remove calls it; the list is changed in place.
SLCall(additem, rmitem) ==
    /\ sl_ok
    /\ rmitem \in Items(sl_list)
    /\ LET r == SortedlistAddRemove(sl_list, additem, rmitem)
       IN  /\ sl_list' = r.list
           /\ sl_ok' = r.ok
    /\ sl_call' = [slist |-> sl_list, additem |-> additem, rmitem |-> rmitem]
    /\ UNCHANGED sl_others

SLNext == \E additem \in SLValues, rmitem \in SLValues : SLCall(additem, rmitem)

(***************************************************************************)
(*                          The specifications                             *)
(***************************************************************************)

AggInit ==
    /\ \E dp \in BOOLEAN : AggStart(dp)
    /\ TOStart
    /\ MSStart(MedianConfig)
    /\ DSStart("historical")
    /\ AKStart(AKDefaultConfig)
    /\ IOStart(<< >>)
    /\ RCStart(<< >>)
    /\ SLStart(<< RInt(1) >>)

SpecAggSum == AggInit /\ [][AggNext]_vars

TOInit ==
    /\ TOStart
    /\ AggStart(FALSE)
    /\ MSStart(MedianConfig)
    /\ DSStart("historical")
    /\ AKStart(AKDefaultConfig)
    /\ IOStart(<< >>)
    /\ RCStart(<< >>)
    /\ SLStart(<< RInt(1) >>)

SpecTimeOrder == TOInit /\ [][TONext]_vars

MSInit ==
    /\ \E cfg \in MSConfigs : MSStart(cfg)
    /\ AggStart(FALSE)
    /\ TOStart
    /\ DSStart("historical")
    /\ AKStart(AKDefaultConfig)
    /\ IOStart(<< >>)
    /\ RCStart(<< >>)
    /\ SLStart(<< RInt(1) >>)

SpecMovingStat == MSInit /\ [][MSNext]_vars

SpecMovingStatAnyOrder == MSInit /\ [][MSAnyOrderNext]_vars

SpecMovingStatPair == MSInit /\ [][MSPairNext]_vars

DSInit ==
    /\ \E kind \in { "historical", "realtime" } : DSStart(kind)
    /\ AKStart(AKDefaultConfig)
    /\ IOStart(<< >>)
    /\ RCStart(<< >>)
    /\ SLStart(<< RInt(1) >>)
    /\ AggStart(FALSE)
    /\ TOStart
    /\ MSStart(MedianConfig)

SpecDatasource == DSInit /\ [][DSNext]_vars

\* Fair scheduling: a thread that can take a step takes one, and every I/O call
\* of the reader returns.  Nothing obliges the pipeline to ask for a next entry
\* or to stop early.
AKInit ==
    /\ \E cfg \in AKConfigs : AKStart(cfg)
    /\ AggStart(FALSE)
    /\ TOStart
    /\ MSStart(MedianConfig)
    /\ DSStart("historical")
    /\ IOStart(<< >>)
    /\ RCStart(<< >>)
    /\ SLStart(<< RInt(1) >>)

SpecAlertKafka == AKInit /\ [][AKNext]_vars

IOInit ==
    /\ \E input \in ListsOf(IOEntries, MaxIOInputs) : IOStart(input)
    /\ AggStart(FALSE)
    /\ TOStart
    /\ MSStart(MedianConfig)
    /\ DSStart("historical")
    /\ AKStart(AKDefaultConfig)
    /\ RCStart(<< >>)
    /\ SLStart(<< RInt(1) >>)

SpecIdentity == IOInit /\ [][IONext]_vars

RCInit ==
    /\ \E pipeline \in ListsOf(RCRoles, MaxStages) : RCStart(pipeline)
    /\ AggStart(FALSE)
    /\ TOStart
    /\ MSStart(MedianConfig)
    /\ DSStart("historical")
    /\ AKStart(AKDefaultConfig)
    /\ IOStart(<< >>)
    /\ SLStart(<< RInt(1) >>)

SpecRoleCheck == RCInit /\ [][RCNext]_vars

SLInit ==
    /\ \E l \in ListsOf(SLValues, MaxSLLen) : l # << >> /\ SLStart(Sorted(l))
    /\ AggStart(FALSE)
    /\ TOStart
    /\ MSStart(MedianConfig)
    /\ DSStart("historical")
    /\ AKStart(AKDefaultConfig)
    /\ IOStart(<< >>)
    /\ RCStart(<< >>)

SpecSortedlist == SLInit /\ [][SLNext]_vars

SpecDatasourceFair ==
    SpecDatasource /\ WF_vars(Reader) /\ WF_vars(Consumer)

(***************************************************************************)
(*                        AggSum: the claims                               *)
(***************************************************************************)

\* C1: per (expression, group id) the times AggSum yields never decrease, and
\* after a bucket with time t of the group was yielded or dropped no bucket with
\* a smaller time is yielded: every yielded bucket has a time >= the greatest
\* time that left the group before it (ev.hi), whatever made it leave.
AggSumOrder ==
    \A i \in 1..Len(ag_emitted) :
        LET ev == ag_emitted[i]
        IN  (ev.kind = "emit" /\ ev.hi # None) => ev.t >= ev.hi

\* C1 witness: one entry made AggSum yield an expired older bucket and then a
\* later bucket of the same group, after an earlier bucket of the group had
\* already left.
AggSumOrderWitness ==
    /\ Len(ag_emitted) >= 2
    /\ ag_emitted[1].kind = "emit" /\ ag_emitted[1].why = "expired"
    /\ ag_emitted[1].hi # None
    /\ ag_emitted[2].kind = "emit"
    /\ ag_emitted[2].groupid = ag_emitted[1].groupid
    /\ ag_emitted[2].exp = ag_emitted[1].exp
    /\ ag_emitted[2].t > ag_emitted[1].t

\* C2 (as claimed): with droppartial false, when the input is exhausted every
\* (group, time) that had a matching entry has exactly one yielded sample.
AggSumCompleteness ==
    (ag_done /\ ~droppartial) =>
        \A aggkey \in DOMAIN ag_total : Len(DictGet(ag_outs, aggkey, << >>)) = 1

GroupBuckets ==
    UNION { UNION { { <<idx, groupid, t>> : t \in DOMAIN agg_by_group[idx][groupid] } :
                    groupid \in DOMAIN agg_by_group[idx] } : idx \in Expressions }
SeenBuckets == { agg_by_seen[i].aggkey : i \in 1..Len(agg_by_seen) }

\* C24: after each entry has been handled, agg_by_group and agg_by_seen hold
\* the same (expression, group id, time) buckets, agg_by_seen holds each of
\* them once, and both bind a bucket to the same record.
AggSumIndexesAgree ==
    /\ GroupBuckets = SeenBuckets
    /\ \A i, j \in 1..Len(agg_by_seen) :
          agg_by_seen[i].aggkey = agg_by_seen[j].aggkey => i = j
    /\ \A i \in 1..Len(agg_by_seen) :
          LET aggkey == agg_by_seen[i].aggkey
          IN  agg_by_group[aggkey[1]][aggkey[2]][aggkey[3]] = agg_by_seen[i].agginfo

\* C24 witness: the last entry made two buckets leave both indexes and a
\* bucket is still held.
AggSumIndexesAgreeWitness ==
    /\ Len(ag_emitted) >= 2
    /\ Len(agg_by_seen) >= 1
    /\ GroupBuckets # {}

\* C25 (as claimed): after each entry has been handled no bucket is left
\* whose first_seen is at or before the expiry time now - timeout.
AggSumSweepComplete ==
    \A i \in 1..Len(agg_by_seen) :
        agg_by_seen[i].agginfo.first_seen > ag_now - AggTimeout

\* The entry (key, value, t) matches an expression and t is below the
\* watermark ok of its (expression, group id).
LateFor(ok, entry) ==
    LET idx == FirstMatch(entry[1])
        groupid == ExpGroups(idx, entry[1])
    IN  /\ idx # 0
        /\ groupid \in DOMAIN ok[idx]
        /\ entry[3] < ok[idx][groupid]

\* C26: an entry that matches an expression and whose time is strictly below
\* the watermark of its (expression, group id) yields nothing and leaves both
\* indexes (so every bucket, its count and its sum) and every watermark as
\* they were.
AggSumLateRejected ==
    [][ (ag_count' = ag_count + 1 /\ LateFor(old_keys, ag_entry'))
            => /\ ag_emitted' = << >>
               /\ agg_by_group' = agg_by_group
               /\ agg_by_seen' = agg_by_seen
               /\ old_keys' = old_keys
               /\ ag_outs' = ag_outs ]_vars

\* C26 witness: the last entry was late (nothing was yielded, so the watermark
\* it is below is the one it met) while a bucket of its group was held.
AggSumLateRejectedWitness ==
    /\ ag_entry # << >>
    /\ LateFor(old_keys, ag_entry)
    /\ ag_emitted = << >>
    /\ \E i \in 1..Len(agg_by_seen) :
          /\ agg_by_seen[i].aggkey[1] = FirstMatch(ag_entry[1])
          /\ agg_by_seen[i].aggkey[2] = ExpGroups(FirstMatch(ag_entry[1]), ag_entry[1])

\* C27: with droppartial set, every yielded sample is a bucket that reached
\* groupsize and adds up exactly groupsize entries, and a bucket that holds
\* fewer entries leaves AggSum without a yield, whether the timeout sweep or
\* a later full or timed-out bucket of its group removes it.
AggSumDroppartialFullOnly ==
    droppartial =>
        \A i \in 1..Len(ag_emitted) :
            LET ev == ag_emitted[i]
            IN  /\ ev.kind = "emit" => (ev.why = "full" /\ ev.n = AggGroupsize)
                /\ ev.n < AggGroupsize => ev.kind = "drop"
                /\ ev.why \in {"expired", "timeout"} => ev.kind = "drop"

\* C27 witness: with droppartial set, one entry filled a bucket, which was
\* yielded, after an older partial bucket of the same group was dropped.
AggSumDroppartialFullOnlyWitness ==
    /\ droppartial
    /\ Len(ag_emitted) = 2
    /\ ag_emitted[1].kind = "drop" /\ ag_emitted[1].why = "expired"
    /\ ag_emitted[1].n = 1
    /\ ag_emitted[2].kind = "emit" /\ ag_emitted[2].why = "full"
    /\ ag_emitted[2].n = AggGroupsize
    /\ ag_emitted[2].groupid = ag_emitted[1].groupid

\* C28: in every step the watermark (old_keys entry) of every (expression,
\* group id) stays or grows, and after a step in which a bucket with time t
\* of a group was yielded as full or removed by the timeout sweep the
\* watermark of that group is at least t.
AggSumWatermark ==
    [][ /\ \A idx \in Expressions : \A groupid \in DOMAIN old_keys[idx] :
              /\ groupid \in DOMAIN old_keys'[idx]
              /\ old_keys'[idx][groupid] >= old_keys[idx][groupid]
        /\ \A i \in 1..Len(ag_emitted') :
              LET ev == ag_emitted'[i]
              IN  ev.why \in {"full", "timeout"} =>
                      /\ ev.groupid \in DOMAIN old_keys'[ev.exp]
                      /\ old_keys'[ev.exp][ev.groupid] >= ev.t ]_vars

\* C28 witness: a full bucket was yielded for a group whose watermark was
\* lower before, and the watermark is now the time of that bucket.
AggSumWatermarkWitness ==
    \E i \in 1..Len(ag_emitted) :
        LET ev == ag_emitted[i]
        IN  /\ ev.why = "full"
            /\ ev.hi # None /\ ev.hi < ev.t
            /\ ev.groupid \in DOMAIN old_keys[ev.exp]
            /\ old_keys[ev.exp][ev.groupid] = ev.t

(***************************************************************************)
(*                       TimeOrder: the claims                             *)
(***************************************************************************)

\* C9 (as claimed): per key, every sample TimeOrder yields, whether directly,
\* from a buffer drain, a forced drain or the end-of-stream drain, has a time
\* strictly greater than the time of the sample yielded before it for that key.
TimeOrderStrict ==
    \A i \in 1..Len(to_emitted) :
        to_emitted[i].prev # None => to_emitted[i].t > to_emitted[i].prev

\* C10 (as claimed): per key, every yielded sample after the first has the
\* time of the previously yielded sample plus interval.
TimeOrderByInterval ==
    \A i \in 1..Len(to_emitted) :
        to_emitted[i].prev # None => to_emitted[i].t = to_emitted[i].prev + TOInterval

\* C10 (amended): per key, every sample after the first that is yielded directly
\* or by a drain that is not forced has the time of the previously yielded
\* sample plus interval; only a forced drain (the timeout has expired) and the
\* end-of-stream drain yield buffered samples at another distance.
TimeOrderByIntervalUnlessForced ==
    \A i \in 1..Len(to_emitted) :
        (to_emitted[i].prev # None /\ to_emitted[i].how \in {"direct", "drain"})
            => to_emitted[i].t = to_emitted[i].prev + TOInterval

\* C10 witness: an entry was yielded directly and released two buffered entries
\* behind it, each one interval after the other.
TimeOrderByIntervalWitness ==
    /\ Len(to_emitted) = 3
    /\ to_emitted[1].how = "direct" /\ to_emitted[1].prev # None
    /\ to_emitted[2].how = "drain"
    /\ to_emitted[3].how = "drain"

\* The samples of the input whose time is at or after the first time yielded
\* for their key
InputFromFirst ==
    LET kept == { s \in DOMAIN to_in :
                    s[1] \in DOMAIN to_first /\ s[3] >= to_first[s[1]] }
    IN  [s \in kept |-> to_in[s]]

\* C11 as stated: when TimeOrder.run has returned, the multiset of the samples
\* it yielded is the multiset of the input samples whose time is at or after
\* the first time yielded for their key.
TimeOrderConservation ==
    to_done => to_out = InputFromFirst

\* C11 amended: when TimeOrder.run has returned, every input sample was
\* yielded exactly once, except the entries dropped on arrival as older than
\* last_key_time + interval and the buffered values replaced by a later entry
\* of the same key and time; nothing is yielded that was not delivered.
TimeOrderConservationExceptLost ==
    to_done =>
        /\ (DOMAIN to_out \cup DOMAIN to_lost) \subseteq DOMAIN to_in
        /\ \A s \in DOMAIN to_in :
              to_in[s] = DictGet(to_out, s, 0) + DictGet(to_lost, s, 0)

\* C11 witness: the run is over, an entry was lost, another was buffered and
\* came out in the final drain, and more than two samples were yielded.
TimeOrderConservationWitness ==
    /\ to_done
    /\ to_lost # EmptyDict
    /\ \E i \in 1..Len(to_emitted) : to_emitted[i].how = "final"
    /\ \E s \in DOMAIN to_out : \E r \in DOMAIN to_out : s # r

\* The step handles an entry of a key whose timeout has expired:
\* now - kv_buf_timer[key] >= timeout, with now the clock reading of the step.
TimedOutEntry ==
    /\ to_count' = to_count + 1
    /\ to_entry'[1] \in DOMAIN kv_buf_timer
    /\ kv_buf_timer[to_entry'[1]] # None
    /\ kv_buf_timer[to_entry'[1]] + TOTimeout <= to_now'

\* C29 (as claimed): an entry of key K handled after K's timeout has expired
\* makes TimeOrder yield every entry buffered for K, in ascending time order,
\* whatever the gaps, and last_key_time[K] ends at or above the greatest
\* buffered time.
TimeOrderForceDrainsAll ==
    [][ TimedOutEntry =>
          LET key == to_entry'[1]
              em == to_emitted'
          IN  /\ \A bt \in DOMAIN kv_buf[key] : \E i \in 1..Len(em) : em[i].t = bt
              /\ \A i, j \in 1..Len(em) : i < j => em[i].t < em[j].t
              /\ \A bt \in DOMAIN kv_buf[key] : to_last_key_time'[key] >= bt ]_vars

\* C29 (amended): an entry of K handled after K's timeout has expired, and
\* that is not the expected next sample of K, is first buffered if its time is
\* beyond the expected one; then the earliest buffered entry is yielded
\* whatever its distance to last_key_time[K], and after it the buffered
\* entries that follow one interval after the other; the drain stops at the
\* first buffered entry that is not one interval after the last yielded one,
\* and that entry and the later ones stay buffered.  last_key_time[K] is the
\* time yielded last.  When the entry is the expected next sample, the
\* timeout forces nothing.
TimeOrderForceDrainsFirst ==
    [][ TimedOutEntry =>
          LET key == to_entry'[1]
              t == to_entry'[3]
              lkt == to_last_key_time[key]
              em == to_emitted'
              times == IF t > lkt + TOInterval THEN DOMAIN kv_buf[key] \cup {t}
                       ELSE DOMAIN kv_buf[key]
              yielded == { em[i].t : i \in 1..Len(em) }
              rest == DOMAIN kv_buf'[key]
          IN  IF t = lkt + TOInterval
              THEN \A i \in 1..Len(em) : em[i].how # "forced"
              ELSE IF times = {} THEN em = << >>
              ELSE /\ Len(em) >= 1
                   /\ em[1].how = "forced" /\ em[1].t = Min(times)
                   /\ \A i \in 2..Len(em) :
                         em[i].how = "drain" /\ em[i].t = em[i-1].t + TOInterval
                   /\ rest = times \ yielded
                   /\ rest # {} => Min(rest) # em[Len(em)].t + TOInterval
                   /\ to_last_key_time'[key] = em[Len(em)].t ]_vars

\* C29 witness: the last entry met an expired timeout; the earliest buffered
\* entry was yielded across a gap and the entry one interval after it behind it.
TimeOrderForceDrainsFirstWitness ==
    /\ Len(to_emitted) = 2
    /\ to_emitted[1].how = "forced"
    /\ to_emitted[1].t > to_emitted[1].prev + TOInterval
    /\ to_emitted[2].how = "drain"
    /\ to_last_key_time[to_emitted[2].key] = to_emitted[2].t

\* C30: when the source is exhausted, TimeOrder yields every entry that is
\* held in the buffer of any key, each once and with its buffered value, and
\* nothing else, the entries of one key in ascending time order.
TimeOrderFinalDrain ==
    to_done =>
        /\ \A i \in 1..Len(to_emitted) :
              LET ev == to_emitted[i]
              IN  /\ ev.how = "final"
                  /\ ev.key \in DOMAIN kv_buf
                  /\ ev.t \in DOMAIN kv_buf[ev.key]
                  /\ ev.value = kv_buf[ev.key][ev.t]
        /\ \A key \in DOMAIN kv_buf : \A t \in DOMAIN kv_buf[key] :
              Cardinality({ i \in 1..Len(to_emitted) :
                              to_emitted[i].key = key /\ to_emitted[i].t = t }) = 1
        /\ \A i, j \in 1..Len(to_emitted) :
              (i < j /\ to_emitted[i].key = to_emitted[j].key)
                  => to_emitted[i].t < to_emitted[j].t

\* C30 witness: the source ended with two entries of one key buffered, the
\* later one buffered first, and the final drain yielded the earlier one first.
TimeOrderFinalDrainWitness ==
    /\ to_done
    /\ Len(to_emitted) = 2
    /\ to_emitted[1].key = to_emitted[2].key
    /\ to_entry[1] = to_emitted[1].key
    /\ to_entry[3] = to_emitted[1].t
    /\ to_emitted[2].t > to_emitted[1].t

\* C31 (as claimed): between two entries, every time held in kv_buf of a key
\* is strictly greater than last_key_time of that key.
TimeOrderBufferAhead ==
    \A key \in DOMAIN kv_buf : \A bt \in DOMAIN kv_buf[key] :
        to_last_key_time[key] # None /\ bt > to_last_key_time[key]

\* C32: every sample TimeOrder has yielded is a (key, value, time) of the
\* input and was yielded at most as often as the input held it; an entry that
\* a drain yields is deleted from kv_buf by that drain.
TimeOrderNoDuplicates ==
    /\ DOMAIN to_out \subseteq DOMAIN to_in
    /\ \A s \in DOMAIN to_out : to_out[s] <= to_in[s]
    /\ \A i \in 1..Len(to_emitted) :
          to_emitted[i].how \in {"drain", "forced"}
              => to_emitted[i].t \notin DOMAIN kv_buf[to_emitted[i].key]

\* C32 witness: a drain yielded a buffered entry that the input had delivered
\* twice (the second replaced the first in kv_buf); it was yielded once and
\* is no longer buffered.
TimeOrderNoDuplicatesWitness ==
    \E i \in 1..Len(to_emitted) :
        LET ev == to_emitted[i]
        IN  /\ ev.how = "drain"
            /\ to_in[<<ev.key, ev.value, ev.t>>] = 2
            /\ to_out[<<ev.key, ev.value, ev.t>>] = 1
            /\ ev.t \notin DOMAIN kv_buf[ev.key]

(***************************************************************************)
(*                      MovingStat: the claims                             *)
(***************************************************************************)

\* The key, value and time of the entry handled last, and its key's state
LastKey == ms_entry[1]
LastValue == ms_entry[2]
LastTime == ms_entry[3]
LastData == ms_data[LastKey]

\* C4: the predicted value of every sample MovingStat yields is the configured
\* statistic of the window entries (v', t') stored for the key when the sample
\* arrived that have t - history <= t' < t.
MovingStatPrediction ==
    \A i \in 1..Len(ms_emitted) :
        LET ev == ms_emitted[i]
            stored == IF ms_branch = "newnormal" THEN ms_pre.raw_vtq ELSE ms_pre.vtq
            window == Between(stored, ev.t - ms_cfg.history, ev.t)
        IN  ev.predicted = StatOver(ms_cfg, ValuesOf(window))

\* C5: once an entry has been handled, the auxiliary structure of every key
\* that has one holds the values of the key's window: the sorted list is the
\* window's values in sorted order, the running sum is their sum.
MovingStatAuxMatchesWindow ==
    ms_error = "none" =>
        \A key \in DOMAIN ms_data :
            LET data == ms_data[key]
            IN  data.aux.init =>
                    IF ms_cfg.stat = "quantile"
                    THEN data.aux.values = Sorted(ValuesOf(data.vtq))
                    ELSE data.aux.sum = RSum(ValuesOf(data.vtq))

\* C6: every sample MovingStat yields for a key has a later time than the
\* sample it yielded for that key before.
MovingStatStrictTimes ==
    \A i \in 1..Len(ms_emitted) :
        ms_emitted[i].prev # None => ms_emitted[i].t > ms_emitted[i].prev

\* C7 as stated: after any non-null entry (key, v, t) has been handled, a
\* non-empty raw deque of the key starts less than maxduration before t.
InpaintingBounded ==
    (ms_branch \notin {"init", "null", "error"} /\ LastData.raw_vtq # << >>)
        => LastTime - LastData.raw_vtq[1].t < ms_cfg.maxduration

\* C7 amended: after an entry (key, v, t) that reached the inpainting decision
\* (it was not stored during warmup and not skipped for a prediction below
\* minprediction), a non-empty raw deque of the key starts less than
\* maxduration before t.
InpaintingBoundedAtDecision ==
    (/\ ms_branch \in {"start", "continue", "newnormal", "newnormal_reset",
                       "cancel", "normal"}
     /\ LastData.raw_vtq # << >>)
        => LastTime - LastData.raw_vtq[1].t < ms_cfg.maxduration

\* C7 witness: an extreme entry continued an episode that started
\* maxduration - 1 before it.
InpaintingBoundedWitness ==
    /\ ms_branch = "continue"
    /\ Len(LastData.raw_vtq) >= 2
    /\ LastTime - LastData.raw_vtq[1].t = ms_cfg.maxduration - 1

\* C8: when an extreme entry (key, v, t) arrives while the key's raw deque
\* starts at or before t - maxduration, the raw deque becomes the window and is
\* cleared, and no exception is raised.  If it starts after t - warmup the statistic is reset, (v, t) is
\* appended and nothing is yielded; otherwise one sample is yielded whose
\* prediction is the statistic of the raw values, and the window and the
\* auxiliary structure afterwards hold raw values and (v, t) only.
NewNormalTransition ==
    (/\ ms_branch \notin {"init", "null"}
     /\ ms_extreme
     /\ ms_pre.raw_vtq # << >>
     /\ ms_pre.raw_vtq[1].t <= LastTime - ms_cfg.maxduration)
        => LET raw == ms_pre.raw_vtq
               all == Append(raw, [v |-> LastValue, t |-> LastTime])
           IN  /\ ms_error = "none"
               /\ LastData.raw_vtq = << >>
               /\ IF raw[1].t > LastTime - ms_cfg.warmup
                  THEN /\ LastData.vtq = all
                       /\ ~LastData.aux.init
                       /\ ms_emitted = << >>
                  ELSE /\ LastData.vtq \in { all, Tail(all) }
                       /\ LastData.aux.init
                       /\ IF ms_cfg.stat = "quantile"
                          THEN LastData.aux.values = Sorted(ValuesOf(LastData.vtq))
                          ELSE LastData.aux.sum = RSum(ValuesOf(LastData.vtq))
                       /\ Len(ms_emitted) = 1
                       /\ ms_emitted[1].predicted = StatOver(ms_cfg, ValuesOf(raw))

\* C8 witness: the new normal replaced a window that held inpainted values by
\* two or more raw values, and a sample was yielded.
NewNormalTransitionWitness ==
    /\ ms_branch = "newnormal"
    /\ Len(ms_pre.raw_vtq) >= 2
    /\ ms_emitted # << >>
    /\ \E i \in 1..Len(ms_pre.vtq) : \E j \in 1..Len(ms_pre.raw_vtq) :
          /\ ms_pre.vtq[i].t = ms_pre.raw_vtq[j].t
          /\ ms_pre.vtq[i].v # ms_pre.raw_vtq[j].v

\* The key of the last entry was in warmup when the entry arrived: its window
\* was empty or the oldest stored time was after t - warmup.
InWarmup ==
    ms_pre.vtq = << >> \/ ms_pre.vtq[1].t > LastTime - ms_cfg.warmup

\* C33 (as claimed): a non-null entry that arrives while its key is in warmup
\* is appended to the window and nothing else changes or is yielded; a
\* non-null entry that arrives outside warmup, is not skipped for a
\* prediction below minprediction and does not end in the reset of a new
\* normal, yields exactly one sample.
MovingStatWarmup ==
    ms_branch \notin {"init", "null"} =>
        IF InWarmup
        THEN /\ ms_emitted = << >>
             /\ LastData = [ms_pre EXCEPT !.vtq = Append(@, [v |-> LastValue, t |-> LastTime])]
        ELSE ms_branch \notin {"skip", "newnormal_reset"} => Len(ms_emitted) = 1

\* The window without the leading entries older than window_start
RECURSIVE DropOld(_, _)
DropOld(vtq, window_start) ==
    IF vtq # << >> /\ Head(vtq).t < window_start THEN DropOld(Tail(vtq), window_start)
    ELSE vtq

\* The last entry arrived outside warmup, and the value predicted for it from
\* the window (after the entries older than t - history were evicted) is not
\* null and is below the configured minprediction.
PredictedTooLow ==
    /\ ms_branch \notin {"init", "null"}
    /\ ~InWarmup
    /\ ms_cfg.minprediction # NoValue
    /\ LET d1 == IF ~ms_pre.aux.init THEN StatInitialize(ms_cfg, ms_pre) ELSE ms_pre
           r == RemoveOld(ms_cfg, d1, LastTime - ms_cfg.history)
           p == StatPrediction(ms_cfg, r.data)
       IN  /\ r.err = "none" /\ p.err = "none"
           /\ p.p # NoValue
           /\ RLt(p.p, ms_cfg.minprediction)

\* C34 (as claimed): an entry whose predicted value is below minprediction
\* yields nothing and leaves the window, the auxiliary structure and the raw
\* deque of its key as they were.
MinpredictionSkipNoMutation ==
    PredictedTooLow => (ms_emitted = << >> /\ LastData = ms_pre)

\* C34 (amended): an entry whose predicted value is below minprediction
\* yields nothing and is not stored: the raw deque is as it was and the window
\* is the old window without its leading entries older than t - history.  The
\* auxiliary structure is initialized (from the old window, if it was not yet)
\* and gives up the values of the evicted entries.
MinpredictionSkipEvictsOnly ==
    PredictedTooLow =>
        LET evicted == SubSeq(ms_pre.vtq, 1, Len(ms_pre.vtq) - Len(LastData.vtq))
            base == IF ms_pre.aux.init THEN ms_pre.aux
                    ELSE StatInitialize(ms_cfg, ms_pre).aux
        IN  /\ ms_emitted = << >>
            /\ ms_error = "none"
            /\ LastData.raw_vtq = ms_pre.raw_vtq
            /\ LastData.vtq = DropOld(ms_pre.vtq, LastTime - ms_cfg.history)
            /\ LastData.aux.init
            /\ IF ms_cfg.stat = "quantile"
               THEN Sorted(LastData.aux.values \o ValuesOf(evicted)) = base.values
               ELSE LastData.aux.sum = RSub(base.sum, RSum(ValuesOf(evicted)))

\* C34 witness: an entry was skipped for a low prediction, and on its way the
\* oldest entry of the window was evicted while a later one stayed.
MinpredictionSkipWitness ==
    /\ PredictedTooLow
    /\ ms_branch = "skip"
    /\ LastData.vtq # << >>
    /\ Len(LastData.vtq) < Len(ms_pre.vtq)

\* C35 (as claimed): when an entry arrives outside warmup and the eviction of
\* the entries older than t - history leaves the key's window without a
\* value, no exception is raised, the prediction and the ratio are null and
\* the entry is processed (one sample is yielded for it), whatever the
\* statistic.
MovingStatEmptyWindow ==
    (/\ ms_branch \notin {"init", "null"}
     /\ ~InWarmup
     /\ DropOld(ms_pre.vtq, LastTime - ms_cfg.history) = << >>)
        => /\ ms_error = "none"
           /\ Len(ms_emitted) = 1
           /\ ms_emitted[1].predicted = NoValue
           /\ ms_emitted[1].ratio = NoValue

\* The window entries the last entry pushed out: the leading entries older
\* than t - history and, when the window was full, the oldest one left.
Displaced ==
    SubSeq(ms_pre.vtq, 1, Len(ms_pre.vtq) + 1 - Len(LastData.vtq))

\* The auxiliary structure of the key as the last entry met it (initialized
\* from the window if it was not yet).
AuxBefore ==
    IF ms_pre.aux.init THEN ms_pre.aux ELSE StatInitialize(ms_cfg, ms_pre).aux

\* The window and the auxiliary structure of the key took in (newval, t) and
\* nothing else: the window is the old one without the displaced entries plus
\* (newval, t), the auxiliary structure gave up the displaced values and
\* received newval.
Stored(newval) ==
    LET window_start == LastTime - ms_cfg.history
        kept == DropOld(ms_pre.vtq, window_start)
        all == Append(kept, [v |-> newval, t |-> LastTime])
    IN  /\ LastData.vtq = IF all[1].t > window_start THEN all ELSE Tail(all)
        /\ LastData.aux.init
        /\ IF ms_cfg.stat = "quantile"
           THEN Sorted(LastData.aux.values \o ValuesOf(Displaced))
                    = Sorted(Append(AuxBefore.values, newval))
           ELSE LastData.aux.sum
                    = RAdd(RSub(AuxBefore.sum, RSum(ValuesOf(Displaced))), newval)

\* The last entry was extreme and started an inpainting episode or met one
\* that started after t - maxduration.
ExtremeInEpisode ==
    /\ ms_branch \notin {"init", "null"}
    /\ ms_extreme
    /\ \/ ms_pre.raw_vtq = << >>
       \/ ms_pre.raw_vtq[1].t > LastTime - ms_cfg.maxduration

\* C36 (as claimed): an extreme entry (v, t) that starts or continues an
\* inpainting episode is appended to the raw deque only; the window and the
\* auxiliary structure receive (predicted, t), with predicted the value
\* yielded as the prediction, which differs from v.
InpaintingSubstitutes ==
    ExtremeInEpisode =>
        /\ ms_error = "none"
        /\ ms_branch \in {"start", "continue"}
        /\ Len(ms_emitted) = 1
        /\ ms_emitted[1].predicted # LastValue
        /\ ShouldInpaint(ms_cfg, Ratio(LastValue, ms_emitted[1].predicted))
        /\ LastData.raw_vtq = Append(ms_pre.raw_vtq, [v |-> LastValue, t |-> LastTime])
        /\ Stored(ms_emitted[1].predicted)

\* The last entry arrived while its key was in an inpainting episode, and the
\* ratio computed for it was not extreme.
NotExtremeInEpisode ==
    /\ ms_branch \notin {"init", "null"}
    /\ ms_pre.raw_vtq # << >>
    /\ ~InWarmup
    /\ LET d1 == IF ~ms_pre.aux.init THEN StatInitialize(ms_cfg, ms_pre) ELSE ms_pre
           r == RemoveOld(ms_cfg, d1, LastTime - ms_cfg.history)
           p == StatPrediction(ms_cfg, r.data)
       IN  /\ r.err = "none" /\ p.err = "none"
           /\ ~MinpredictionSkips(ms_cfg, p.p)
           /\ ~ShouldInpaint(ms_cfg, Ratio(LastValue, p.p))

\* C37: when the ratio of an entry (v, t) is not extreme while its key is in
\* an inpainting episode, the raw deque is discarded (the key is back to
\* normal), (v, t) itself is appended to the window, and the window keeps its
\* earlier entries, the inpainted ones included, with their values: only the
\* entries that leave by age (older than t - history, or the oldest one of a
\* full window) are gone.
InpaintingCancelled ==
    NotExtremeInEpisode =>
        LET window_start == LastTime - ms_cfg.history
            all == Append(DropOld(ms_pre.vtq, window_start),
                          [v |-> LastValue, t |-> LastTime])
        IN  /\ LastData.raw_vtq = << >>
            /\ LastData.vtq = IF all[1].t > window_start THEN all ELSE Tail(all)
            /\ ms_branch \in {"cancel", "error"}

\* C37 witness: an episode was cancelled; the window ends with the entry that
\* cancelled it and still holds a predicted value at the time of a raw entry
\* that was discarded.
InpaintingCancelledWitness ==
    /\ NotExtremeInEpisode
    /\ ms_branch = "cancel"
    /\ LastData.vtq[Len(LastData.vtq)] = [v |-> LastValue, t |-> LastTime]
    /\ \E i \in 1..Len(LastData.vtq) : \E j \in 1..Len(ms_pre.raw_vtq) :
          /\ LastData.vtq[i].t = ms_pre.raw_vtq[j].t
          /\ LastData.vtq[i].v # ms_pre.raw_vtq[j].v

\* C38: handling an entry of key K yields samples of K only and leaves the
\* statistic object (window, auxiliary structure, raw deque) and the
\* last-seen time of every other key as they were, creating no other key; an
\* entry whose value is null yields nothing and leaves K's state as it was,
\* too.
MovingStatKeysIsolated ==
    [][ LET K == ms_entry'[1]
        IN  /\ \A i \in 1..Len(ms_emitted') : ms_emitted'[i].key = K
            /\ DOMAIN ms_data' \subseteq (DOMAIN ms_data) \cup {K}
            /\ DOMAIN ms_last_key_time' \subseteq (DOMAIN ms_last_key_time) \cup {K}
            /\ \A key \in (DOMAIN ms_data) \ {K} :
                  /\ key \in DOMAIN ms_data'
                  /\ ms_data'[key] = ms_data[key]
                  /\ ms_last_key_time'[key] = ms_last_key_time[key]
            /\ ms_entry'[2] = NoValue =>
                  /\ ms_emitted' = << >>
                  /\ ms_data' = ms_data
                  /\ ms_last_key_time' = ms_last_key_time ]_vars

\* C38 witness: an entry of one key was answered with a sample of that key
\* while the other key holds a window of two entries.
MovingStatKeysIsolatedWitness ==
    /\ Len(ms_emitted) = 1
    /\ ms_emitted[1].key = LastKey
    /\ \E key \in (DOMAIN ms_data) \ {LastKey} : Len(ms_data[key].vtq) >= 2

(***************************************************************************)
(*                       Datasource: the claims                            *)
(***************************************************************************)

\* The consumer is in, or through, the finally block of Datasource.run
InCleanup == ds_cpc \in { "c_finally", "c_setdone", "c_join", "c_end" }

\* seq1 is the beginning of seq2
IsPrefix(seq1, seq2) ==
    /\ Len(seq1) <= Len(seq2)
    /\ \A i \in 1..Len(seq1) : seq1[i] = seq2[i]

\* C12 as stated: the reader never resets the slot while a published batch is
\* untaken, and when the run is over the consumer has taken every published
\* batch once, in publication order.
DatasourceExactlyOnce ==
    /\ ~ds_clobbered
    /\ ds_cpc = "c_end" => ds_taken = ds_published

\* C12 amended: the batches taken are the published ones in publication order,
\* none twice and at most one published batch untaken; when the consumer was
\* not stopped early, the run ends with every published batch taken, and the
\* slot is never reset over an untaken batch; after an early stop the last
\* published batch may stay untaken and the Realtime reader may reset the slot
\* over it.
DatasourceAtMostOnce ==
    /\ IsPrefix(ds_taken, ds_published)
    /\ Len(ds_published) <= Len(ds_taken) + 1
    /\ \A i, j \in 1..Len(ds_published) : i # j => ds_published[i] # ds_published[j]
    /\ \A i \in 1..Len(ds_published) : ds_published[i] = List(<< i >>)
    /\ ds_clobbered => (ds_outcome = "closed" /\ ds_kind = "realtime")
    /\ (ds_cpc = "c_end" /\ ds_outcome # "closed") => ds_taken = ds_published

\* C12 witness: the stream ended after the consumer took two or more batches.
DatasourceAtMostOnceWitness ==
    /\ ds_cpc = "c_end"
    /\ ds_outcome = "eos"
    /\ Len(ds_taken) = MaxBatches
    /\ ds_taken = ds_published

\* C13: whichever way the consumer leaves its loop (end of stream, the reader's
\* exception, an early stop), it is in the finally block, and from then on done
\* becomes true, the reader thread ends and the join returns.
DatasourceCleanup ==
    /\ [](ds_outcome # "none" => InCleanup)
    /\ (ds_outcome # "none") ~> (ds_cpc = "c_end" /\ ds_done /\ ds_rpc = "r_end")

\* C13 witness: the consumer was stopped early while the reader was a batch
\* ahead, its finally block set done and notified, and the join returned.
DatasourceCleanupWitness ==
    /\ ds_cpc = "c_end"
    /\ ds_outcome = "closed"
    /\ ds_woken
    /\ Len(ds_published) > Len(ds_taken)

\* C14 as stated: a check the consumer completes while the reader's exception
\* is stored raises that exception.
DatasourceRaisesAtNextWait ==
    ds_check.exc => ds_check.result = "raised"

\* C14 amended: a check the consumer completes while the reader's exception is
\* stored raises it unless a published batch is waiting, which is taken first;
\* a stored exception is never taken for the end of the stream, and once
\* raised the consumer is in its finally block.
DatasourceRaisesWhenDrained ==
    /\ (ds_check.exc /\ ~ds_check.consumable) => ds_check.result = "raised"
    /\ (ds_check.exc /\ ds_check.consumable) => ds_check.result = "took"
    /\ ds_check.result = "eos" => ~ds_check.exc
    /\ ds_outcome = "raised" => (InCleanup /\ ds_reader_exc # "none")
    /\ (ds_reader_exc # "none" /\ ds_cpc = "c_end" /\ ds_outcome # "closed")
          => ds_outcome = "raised"

\* C14 witness: the run ended with the reader's exception after a batch had
\* been taken.
DatasourceRaisesWitness ==
    /\ ds_outcome = "raised"
    /\ ds_cpc = "c_end"
    /\ Len(ds_taken) >= 1

\* C15 as stated: after an early stop, when the consumer joins the reader, done
\* is true and both conditions were notified.
DatasourceFinallyNotifiesBoth ==
    (ds_outcome = "closed" /\ ds_cpc \in { "c_join", "c_end" })
        => (ds_done /\ ds_notified = { "producable", "consumable" })

\* C15 amended: after an early stop, when the consumer joins the reader, done
\* is true; the finally block has set it and notified cond_producable only,
\* unless the reader had set done before, and then it notified nothing.
DatasourceFinallyNotifiesProducable ==
    (ds_outcome = "closed" /\ ds_cpc \in { "c_join", "c_end" })
        => /\ ds_done
           /\ ds_notified \in { { }, { "producable" } }
           /\ ds_notified = { } => ds_rpc \in { "r_exit", "r_end" }

\* C15 witness: the finally block woke the reader that waited for the slot.
DatasourceFinallyWitness ==
    /\ ds_outcome = "closed"
    /\ ds_cpc = "c_join"
    /\ ds_notified = { "producable" }
    /\ ds_woken
    /\ ds_rpc = "r_check"

\* The entries of a sequence of batches, in order
RECURSIVE EntriesOf(_)
EntriesOf(batches) ==
    IF batches = << >> THEN << >>
    ELSE batches[1].items \o EntriesOf(Tail(batches))

\* C21: the consumer takes the end of the stream only at a check that finds no
\* batch published, and when it has ended the stream normally it has yielded
\* every entry of every published batch, the last batch included, in order.
DatasourceDrainsBeforeEos ==
    /\ ds_check.result = "eos" => ~ds_check.consumable
    /\ ds_outcome = "eos"
          => /\ ~ds_consumable
             /\ ~ds_clobbered
             /\ ds_taken = ds_published
             /\ ds_yielded = EntriesOf(ds_published)

\* C21 witness: the stream has ended normally after MaxBatches batches, the
\* last one included, were published and yielded.
DatasourceDrainsBeforeEosWitness ==
    /\ ds_outcome = "eos"
    /\ ds_cpc = "c_end"
    /\ Len(ds_published) = MaxBatches
    /\ ds_yielded = EntriesOf(ds_published)
    /\ Len(ds_yielded) = MaxBatches

\* C22: the reader is between claiming the slot and publishing it only while
\* producable and consumable are both false, so that the consumer, which takes
\* the slot only at a check that finds consumable true, is not at the slot
\* then; the slot the reader fills is the list it has just made; producable
\* and consumable are never both true; the reader resets a slot that holds an
\* untaken batch only when the consumer has left its loop.
DatasourceSlotExclusive ==
    /\ ~(ds_producable /\ ds_consumable)
    /\ ds_rpc \in { "r_fill", "r_publish" }
          => (~ds_producable /\ ~ds_consumable /\ ~ds_incoming.none)
    /\ ds_rpc = "r_donecheck" => ~ds_producable
    /\ ds_check.result = "took" => ds_check.consumable
    /\ ds_cpc = "c_prod" => (~ds_consumable /\ ~ds_data.none)
    /\ ds_consumable => (~ds_incoming.none /\ ds_rpc \notin { "r_fill", "r_publish" })
    /\ ds_clobbered => InCleanup

\* C22 witness: the reader fills the slot for its second batch while the
\* consumer is at the yield of the first.
DatasourceSlotExclusiveWitness ==
    /\ ds_rpc = "r_fill"
    /\ ds_cpc = "c_yield"
    /\ Len(ds_taken) = 1
    /\ ds_requests = 2

\* C23: the reader and the consumer never wait both; while the reader waits,
\* the slot is not producable, done is false and the consumer has a step to
\* take; while the consumer waits, nothing is consumable, done is false and
\* the reader has a step to take; so no notify was lost and none is missing.
DatasourceNoDeadlock ==
    /\ ~(ds_rpc = "r_wait" /\ ds_cpc = "c_wait")
    /\ ds_rpc = "r_wait"
          => /\ ~ds_producable /\ ~ds_done
             /\ ENABLED (Consumer \/ CResume \/ CClose)
    /\ ds_cpc = "c_wait"
          => /\ ~ds_consumable /\ ~ds_done
             /\ ENABLED Reader
    /\ ds_cpc = "c_join" => ENABLED (Reader \/ CJoin)

\* C23 witness: the reader waits for the slot while the consumer is at a yield.
DatasourceNoDeadlockWitness ==
    /\ ds_rpc = "r_wait"
    /\ ds_cpc = "c_yield"
    /\ ds_consumable

(***************************************************************************)
(*                       AlertKafka: the claims                            *)
(***************************************************************************)

\* The entry read last had a value, so that it went through the state machine.
AKHandled == ak_entry.key # "none" /\ ak_entry.value # NoValue

\* The status of the entry read last
AKEntryStatus == AKStatusOf(ak_cfg, ak_entry.value)

\* C16: with minduration set, when a sample of a key is normal while the key's
\* pending record exists, no alert is produced for it, the event has produced
\* no critical alert before, and the pending record is cleared.
AlertShortEventSilent ==
    (/\ AKHandled
     /\ ~MindurationDisabled(ak_cfg)
     /\ ak_pre.pending # AKNoState
     /\ AKEntryStatus = STATUS_NORMAL)
        => /\ ak_pre.status # STATUS_NORMAL
           /\ ak_pre.crit = 0
           /\ ak_out = << >>
           /\ ak_entry.key \notin DOMAIN ak_alert_state

\* C16 witness: an event ended at a normal sample while its pending record was
\* held, minduration after it had begun.
AlertShortEventSilentWitness ==
    /\ AKHandled
    /\ ~MindurationDisabled(ak_cfg)
    /\ ak_pre.pending # AKNoState
    /\ AKEntryStatus = STATUS_NORMAL
    /\ ak_entry.t >= ak_pre.pending.t + ak_cfg.minduration
    /\ ak_out = << >>

\* A continuation sample of an event whose pending record is held arrived
\* minduration or more after the record's time.
AKContinuationDue ==
    /\ AKHandled
    /\ ~MindurationDisabled(ak_cfg)
    /\ ak_pre.pending # AKNoState
    /\ AKEntryStatus = ak_pre.status
    /\ ak_entry.t - ak_pre.pending.t >= ak_cfg.minduration

\* C17 as stated: with minduration set, a continuation sample at time t of a
\* key whose pending record (t0, v0, ...) is held, with t - t0 >= minduration,
\* produces one critical alert whose time is t0 and whose value is v0, clears
\* the pending record, and is the only critical alert while the status stays
\* the same.
AlertStampedWithStartValue ==
    /\ \A k \in AKKeys : ak_crit[k] <= 1
    /\ AKContinuationDue
           => /\ Len(ak_out) = 1
              /\ ak_out[1].level = "critical"
              /\ ak_out[1].time = ak_pre.pending.t
              /\ ak_out[1].value = ak_pre.pending.value
              /\ ak_entry.key \notin DOMAIN ak_alert_state
              /\ ak_crit[ak_entry.key] = 1

\* C17 amended: as above, but the value of the alert is the pending record's
\* actual value when the event's first sample carried one (a tuple of ratio,
\* actual and predicted), and v0 only when it did not; the alert's history
\* value is the pending record's predicted value.
AlertAfterMinduration ==
    /\ \A k \in AKKeys : ak_crit[k] <= 1
    /\ AKContinuationDue
           => /\ ak_pre.status # STATUS_NORMAL
              /\ ak_out = << ProduceAlert(ak_pre.status, ak_pre.pending.t, ak_entry.key,
                                          ak_pre.pending.value, ak_pre.pending.actual,
                                          ak_pre.pending.predicted) >>
              /\ ak_out[1].level = "critical"
              /\ ak_out[1].time = ak_pre.pending.t
              /\ ak_out[1].value = IF ak_pre.pending.actual = NoValue
                                   THEN ak_pre.pending.value
                                   ELSE ak_pre.pending.actual
              /\ ak_out[1].history_value = ak_pre.pending.predicted
              /\ ak_entry.key \notin DOMAIN ak_alert_state
              /\ ak_crit[ak_entry.key] = 1

\* C17 witness: the alert was produced at a sample whose time and actual value
\* differ from the pending record's.
AlertAfterMindurationWitness ==
    /\ AKContinuationDue
    /\ ak_entry.t > ak_pre.pending.t
    /\ ak_entry.actual # ak_pre.pending.actual
    /\ Len(ak_out) = 1

AlertNormalAfterCritical ==
    \A i \in 1..Len(ak_out) :
        ak_out[i].level = "normal"
            => (IF i = 1 THEN ak_pre.last ELSE ak_out[i - 1].level) = "critical"

\* C39 witness: with minduration and waitnormal set, the suppressed return to
\* normal of a key was produced, the alert before it being critical.
AlertNormalAfterCriticalWitness ==
    /\ ~MindurationDisabled(ak_cfg)
    /\ ak_cfg.waitnormal
    /\ Len(ak_out) = 1
    /\ ak_out[1].level = "normal"
    /\ ak_pre.last = "critical"
    /\ ak_pre.status = STATUS_NORMAL

(***************************************************************************)
(*                  The pipeline DataIn -> DataOut: the claim              *)
(***************************************************************************)

\* Every key of the list is an ASCII string, as the keys of samples are.
AsciiKeys(input) == \A i \in 1..Len(input) : BytesAscii(input[i][1]).ok

\* C19: the output of the pipeline DataIn -> DataOut is at every moment the
\* beginning of the input that was pulled so far, and when the run is over it
\* is the input: same samples, same order, none dropped, duplicated or altered.
PipelineIdentity ==
    /\ Len(io_output) <= io_pos
    /\ \A i \in 1..Len(io_output) : io_output[i] = io_input[i]
    /\ (io_pc = "running" /\ AsciiKeys(io_input)) => Len(io_output) = io_pos
    /\ AsciiKeys(io_input) => io_pc # "error"
    /\ io_pc = "done" => io_output = io_input

\* C19 witness: a run over two samples with different keys has ended.
PipelineIdentityWitness ==
    /\ io_pc = "done"
    /\ Len(io_input) = 2
    /\ io_input[1][1] # io_input[2][1]
    /\ io_input[1][2] # io_input[2][2]
    /\ io_output = io_input

(***************************************************************************)
(*                     Sentry.__init__: the claim                          *)
(***************************************************************************)

\* The stage at position 0 is not a Source, the last stage is not a Sink, or
\* a Source or a Sink is at another position.
RolesWrong(pipeline) ==
    LET n == Len(pipeline)
    IN  /\ n >= 1
        /\ \/ "Source" \notin pipeline[1]
           \/ "Sink" \notin pipeline[n]
           \/ \E i \in 2..n : "Source" \in pipeline[i]
           \/ \E i \in 1..(n - 1) : "Sink" \in pipeline[i]

\* One Source first, one Sink last, only filters in between
RolesRight(pipeline) ==
    LET n == Len(pipeline)
    IN  /\ n >= 2
        /\ pipeline[1] = { "Source" }
        /\ pipeline[n] = { "Sink" }
        /\ \A i \in 2..(n - 1) : pipeline[i] = { }

\* C20: once construction has ended, a pipeline with a stage in the wrong
\* place has ended in a UserError raised by the role check, and a pipeline
\* with one Source first, one Sink last and filters in between has passed it.
RoleCheck ==
    rc_result # "checking"
        => /\ RolesWrong(rc_pipeline) => (rc_result = "UserError" /\ ~rc_role_ok)
           /\ RolesRight(rc_pipeline) => (rc_role_ok /\ rc_result = "ok")
           /\ rc_role_ok => ~RolesWrong(rc_pipeline)

\* C20 witness: a Sink in the middle of a pipeline that begins with a Source
\* and ends with a Sink was refused.
RoleCheckWitness ==
    /\ rc_result = "UserError"
    /\ Len(rc_pipeline) = 3
    /\ rc_pipeline[1] = { "Source" }
    /\ rc_pipeline[2] = { "Sink" }
    /\ rc_pipeline[3] = { "Sink" }
    /\ rc_i = 1


(***************************************************************************)
(*                 _sortedlist_add_remove: the claims                      *)
(***************************************************************************)

\* The list is in nondecreasing order
Nondecreasing(slist) ==
    \A i \in 1..(Len(slist) - 1) : ~RLt(slist[i + 1], slist[i])

SLCalled == sl_call.rmitem # NoValue

\* C40: called on a sorted list that holds rmitem, _sortedlist_add_remove
\* returns with the list sorted, as long as before, and holding the items it
\* held less one rmitem plus one additem; lists with equal items and
\* additem = rmitem included.
SortedlistAddRemoveCorrect ==
    SLCalled
        => /\ sl_ok
           /\ Nondecreasing(sl_list)
           /\ Len(sl_list) = Len(sl_call.slist)
           /\ Sorted(Append(sl_list, sl_call.rmitem))
                 = Sorted(Append(sl_call.slist, sl_call.additem))

\* C40 witness: the call took one of two equal items out of a list of three
\* or more and put a smaller item in.
SortedlistAddRemoveCorrectWitness ==
    /\ SLCalled
    /\ Len(sl_call.slist) >= 3
    /\ Cardinality({ i \in 1..Len(sl_call.slist) :
                        sl_call.slist[i] = sl_call.rmitem }) >= 2
    /\ RLt(sl_call.additem, sl_call.rmitem)
    /\ sl_list # sl_call.slist

=============================================================================
